---- MODULE Spec2Model ----
(***************************************************************************)
(* A model of ijq's interactive session (createApp in main.go).            *)
(*                                                                         *)
(* Spec is the live session controller: the filter field's change handler  *)
(* running on the UI goroutine, the execution loop goroutine that re-runs  *)
(* jq against the output pane, the jq subprocess of each run, and the      *)
(* queue of UI updates between them.  KeySpec is the key dispatch of the   *)
(* input capture for the default and for user-configured keymaps, and      *)
(* SubmitSpec the submit: colour options, history append, final write and  *)
(* exit status.  HistSpec is the history store on its own (history.Init    *)
(* and history.Add with the file system failing or not), and ParseSpec the *)
(* parsing of key binding descriptors and the matching of bindings against *)
(* key events (keymap.go).  SliceSpec is Document.WriteTo up to the        *)
(* argument list, for every set of options, and ExecSpec the calls of      *)
(* Document.WriteTo that the session makes side by side, each on its own   *)
(* copy of the document, while the current document changes.               *)
(*                                                                         *)
(* Filter expressions are numbered 1..MaxFilter.  jq is deterministic for  *)
(* a given input: the even-numbered expressions are the ones jq rejects    *)
(* (nonzero exit status, a message on stderr; those numbered 4, 8, ...     *)
(* fail at run time, after one chunk of output); of the others,            *)
(* those numbered 1, 7, ... print two chunks of output and the rest print  *)
(* nothing.  Expression 0 is the empty string, and e < 0 is expression     *)
(* -e - 1 typed with white space around it.  Key binding descriptors are   *)
(* strings, parsed character by character.                                 *)
(***************************************************************************)
EXTENDS Integers, Sequences, FiniteSets, TLC

\* ------------------------------------------------------------- bounds
MaxFilter  == 2   \* number of distinct filter expressions
MaxChanges == 3   \* text-change events of one behaviour
QueueCap   == 1   \* capacity of the UI update queue
MaxAdds    == 3   \* calls of history.Add on one store
MaxCalls   == 2   \* calls of Document.WriteTo followed side by side

Filters == 1..MaxFilter

\* context.Background(): the context of a document made by WithFilter.
Background == 0
\* exec.ExitError.ExitCode() of a process ended by a signal (the kill that
\* follows the cancellation of its context).
CancelCode == -1

VARIABLES
  keymap,          \* the user's keymap configuration (see Keymap)
  focus,           \* the primitive that has focus: "filter", "input" or "output"
  isInputPaneHidden, \* isInputPaneHidden
  last,            \* history: the last key event and what the capture did with it
  stopped,         \* app.Stop() has been called
  options,         \* doc.options: monochrome, forceColor
  isTty,           \* standard output is a terminal
  filterHistory,   \* filterHistory: path, lines
  histFile,        \* the history file: exists, lines
  histErr,         \* history: what filterHistory.Add returned on submit
  histLoaded,      \* history: filterHistory and the file as the first session found them
  added,           \* history: the calls of history.Add, and what the file system did
  hop,             \* history: the last operation on the history
  stderrOut,       \* what the process wrote to its standard error
  stdoutOut,       \* the jq invocations run against the real standard output
  exitStatus,      \* <<>> while the process runs, then <<its exit status>>
  parsed,          \* keymap: the last descriptor parsed and what came of it
  matched,         \* keymap: the last bindings tested against an event, and the results
  document,        \* executor: the current Document with its input and all its options
  calls,           \* executor: the calls of Document.WriteTo, in the order they were made
  filterMap,       \* autocomplete: filterMap, the entries cached for a trimmed prefix
  fills,           \* autocomplete: the goroutines that are filling the cache
  suggestion,      \* autocomplete: the last call of the autocomplete function
  aborted,         \* autocomplete: a panic has ended the process
  doc,             \* the current Document: filter, ctx (and seq, a history field:
                   \* the number of the change event that stored it)
  pending,         \* pending: a changed document waits for the loop
  cancel,          \* cancel: the scope the cancel function in force cancels
  cancelled,       \* the cancellation scopes that have been cancelled
  loopPc,          \* position of the execution loop goroutine
  d,               \* the loop's snapshot of doc (a local of one iteration)
  err,             \* the loop's err, the result of d.WriteTo(&outputPane)
  procs,           \* the jq processes alive
  exited,          \* what cmd.Run will return for the loop's process
  outputPane,      \* tv: the text view's chunks (each the run that wrote it), dirty
  outputLineCount, \* outputLineCount
  ui,              \* the UI goroutine: its position in the change handler
  errorView,       \* the error pane: the texts written since the last Clear
  fieldColor,      \* filterInput's field text colour
  updates,         \* tview's queue of functions to run on the UI goroutine
  nev,             \* history: number of change events handled
  batch,           \* history: texts of the events handled since the last snapshot
  nruns,           \* history: number of executions the loop has dequeued
  run              \* history: the execution dequeued last

ctlVars == <<doc, pending, cancel, cancelled, loopPc, d, err, procs, exited,
          outputPane, outputLineCount, ui, errorView, fieldColor, updates,
          nev, batch, nruns, run>>

keyVars == <<keymap, focus, isInputPaneHidden, last, stopped, options, isTty,
             filterHistory, histFile, histErr, histLoaded, added, hop, stderrOut,
             stdoutOut, exitStatus>>

parseVars == <<parsed, matched>>

acVars == <<filterMap, fills, suggestion, aborted>>

execVars == <<document, calls, acVars>>

vars == <<ctlVars, keyVars, parseVars, execVars>>

\* ------------------------------------------------------------- jq
\* Expression 0 is the empty string, and e < 0 is expression -e - 1 typed with
\* white space around it: -1 is white space only.  strings.TrimSpace:
TrimSpaceNone(e) == e
TrimSpace(e) == IF e < 0 THEN -e - 1 ELSE e

JqFails(f) == TrimSpace(f) # 0 /\ TrimSpace(f) % 2 = 0
JqExitCode(f) == IF JqFails(f) THEN 5 ELSE 0
JqStderr(f) == IF JqFails(f) THEN <<"jq: error", f>> ELSE <<>>
JqChunks(f) ==
  IF JqFails(f) THEN (IF TrimSpace(f) % 4 = 0 THEN 1 ELSE 0)
  ELSE IF TrimSpace(f) % 3 = 1 THEN 2 ELSE 0

\* ------------------------------------------------------------- Document
WithFilter(dd, filter) == [dd EXCEPT !.filter = filter, !.ctx = Background]

NoDoc == [filter |-> 1, ctx |-> Background, seq |-> 0]
NoErr == [kind |-> "nil", code |-> 0, stderr |-> <<>>]
NoRun == [filter |-> 1, seq |-> 0, batch |-> <<>>, first |-> TRUE,
          kind |-> "none", code |-> 0, reported |-> FALSE, prev |-> "none"]

\* The scope context.WithCancel creates: one per call, numbered from 1.
NewScope == nruns + 1

\* ------------------------------------------------------------- initial state
\* pending starts true (main.go: "Initialize pending to true").
InitPendingUnset == FALSE
InitPending == TRUE

\* ------------------------------------------------------------- key events
\* A key event (tcell.EventKey): its key, its rune and its modifier mask.  The
\* rune of an event that is not a character is ' ', as tcell.NewEventKey is
\* called with throughout.
NewEventKey(key, rune, mods) == [key |-> key, rune |-> rune, mods |-> mods]

ModNone == {}

KeyNames == {"Enter", "CtrlN", "CtrlP", "CtrlV", "CtrlA", "CtrlE", "CtrlU",
             "CtrlD", "CtrlF", "CtrlB", "CtrlO", "CtrlS", "Up", "Down", "Left",
             "Right", "Tab", "Backtab"}

Runes == {"0", "$", "u", "d", "b", "v", "f", "G", "x"}

\* The events explored: every key and every character without modifiers, the
\* arrows and Enter with Shift, and Enter and two characters with Alt.
Events ==
  {NewEventKey(k, " ", ModNone) : k \in KeyNames}
    \cup {NewEventKey("Rune", r, ModNone) : r \in Runes}
    \cup {NewEventKey(k, " ", {"Shift"}) : k \in {"Up", "Down", "Left", "Right", "Enter"}}
    \cup {NewEventKey("Enter", " ", {"Alt"})}
    \cup {NewEventKey("Rune", r, {"Alt"}) : r \in {"v", "x"}}

\* The capture returns nil for an event it has consumed.
Nil == [key |-> "nil", rune |-> " ", mods |-> ModNone]

\* A KeyBinding; the zero rune is "".
KeyBinding(key, rune, mods) == [key |-> key, rune |-> rune, mods |-> mods]

MatchesExtraMods(binding, event) ==
  IF event.key # binding.key THEN FALSE
  ELSE IF binding.key = "Rune" /\ event.rune # binding.rune THEN FALSE
  ELSE binding.mods \subseteq event.mods

\* func (binding KeyBinding) Matches(event *tcell.EventKey) bool
Matches(binding, event) ==
  IF event.key # binding.key THEN FALSE
  ELSE IF binding.key = "Rune" /\ event.rune # binding.rune THEN FALSE
  ELSE event.mods = binding.mods

\* func (bindings KeyBindings) Matches(event *tcell.EventKey) bool
KeyBindingsMatches(bindings, event) ==
  \E binding \in bindings : Matches(binding, event)

DefaultKeymap ==
  [SubmitFilter |-> {KeyBinding("Enter", "", ModNone)},
   MoveDown |-> {KeyBinding("CtrlN", "", ModNone)},
   MoveUp |-> {KeyBinding("CtrlP", "", ModNone)},
   PageDown |-> {KeyBinding("CtrlV", "", ModNone)},
   LineStart |-> {KeyBinding("CtrlA", "", ModNone), KeyBinding("Rune", "0", ModNone)},
   LineEnd |-> {KeyBinding("CtrlE", "", ModNone), KeyBinding("Rune", "$", ModNone)},
   HalfPageUp |-> {KeyBinding("CtrlU", "", ModNone), KeyBinding("Rune", "u", ModNone)},
   HalfPageDown |-> {KeyBinding("CtrlD", "", ModNone), KeyBinding("Rune", "d", ModNone)},
   FilterCursorRight |-> {KeyBinding("CtrlF", "", ModNone)},
   FilterCursorLeft |-> {KeyBinding("CtrlB", "", ModNone)},
   FocusInputPaneUp |-> {KeyBinding("Up", "", {"Shift"})},
   FocusInputPaneLeft |-> {KeyBinding("Left", "", {"Shift"})},
   FocusOutputPane |-> {KeyBinding("Right", "", {"Shift"})},
   FocusFilterInput |-> {KeyBinding("Down", "", {"Shift"})},
   NextFocus |-> {KeyBinding("Tab", "", ModNone)},
   PreviousFocus |-> {KeyBinding("Backtab", "", ModNone)},
   ToggleInputPane |-> {KeyBinding("CtrlO", "", ModNone)},
   TextviewPageUp |-> {KeyBinding("Rune", "b", ModNone)},
   TextviewPageUpAlt |-> {KeyBinding("Rune", "v", {"Alt"})},
   TextviewPageDown |-> {KeyBinding("Rune", "f", ModNone)},
   TextviewEnd |-> {KeyBinding("Rune", "G", ModNone)}]

\* The user's keymap configuration: none, or one action bound to a plain
\* character or to Ctrl+S, which replaces the default bindings of that action.
UserBindings == {KeyBinding("Rune", "x", ModNone), KeyBinding("CtrlS", "", ModNone)}

NoUserKeymap == [action |-> "none", binding |-> Nil]

UserKeymaps ==
  {NoUserKeymap}
    \cup {[action |-> a, binding |-> b] : a \in DOMAIN DefaultKeymap, b \in UserBindings}

\* doc.options.config.Keymap for the user's configuration u.
Keymap(u) ==
  IF u.action = "none" THEN DefaultKeymap
  ELSE [DefaultKeymap EXCEPT ![u.action] = {u.binding}]

\* submitOnEnter: the submit binding includes a plain Enter.
SubmitOnEnterNever(km) == FALSE
SubmitOnEnter(km) ==
  KeyBindingsMatches(km.SubmitFilter, NewEventKey("Enter", " ", ModNone))

\* focused.(*tview.TextView): the input and the output view are text views.
IsTextView(f) == f \in {"input", "output"}

\* The test that keeps printable characters available for typing.
IsTypingShifted(event) == event.key = "Rune" /\ event.mods = {"Shift"}
IsTyping(event) == event.key = "Rune" /\ event.mods = ModNone

\* The function given to app.SetInputCapture, for keymap km, focus f, hidden
\* flag h and event ev: the event it returns (Nil if consumed), the action it
\* took, the focus and the hidden flag it leaves, and whether it called
\* submitFilter.
InputCapture(km, f, h, ev) ==
  LET R(ret, act, f2, h2) ==
        [ret |-> ret, act |-> act, focus |-> f2, hidden |-> h2,
         submit |-> act = "submit-filter"]
      M(bindings) == KeyBindingsMatches(bindings, ev)
      Key(k) == NewEventKey(k, " ", ModNone)
  IN
  IF f = "filter" /\ ev.key = "Enter" /\ ev.mods = ModNone
    THEN R(ev, "none", f, h)
  ELSE IF f = "filter" /\ M(km.SubmitFilter)
    THEN R(Nil, "submit-filter", f, h)
  ELSE IF f = "filter" /\ IsTyping(ev)
    THEN R(ev, "none", f, h)
  ELSE IF M(km.MoveDown) THEN R(Key("Down"), "move-down", f, h)
  ELSE IF M(km.MoveUp) THEN R(Key("Up"), "move-up", f, h)
  ELSE IF M(km.PageDown) THEN R(Key("PgDn"), "page-down", f, h)
  ELSE IF M(km.LineStart) /\ IsTextView(f) THEN R(Nil, "line-start", f, h)
  ELSE IF M(km.LineEnd) /\ IsTextView(f) THEN R(Nil, "line-end", f, h)
  ELSE IF M(km.HalfPageUp) /\ IsTextView(f) THEN R(Nil, "half-page-up", f, h)
  ELSE IF M(km.HalfPageDown) /\ IsTextView(f) THEN R(Nil, "half-page-down", f, h)
  ELSE IF M(km.FilterCursorRight) /\ f = "filter"
    THEN R(Key("Right"), "filter-cursor-right", f, h)
  ELSE IF M(km.FilterCursorLeft) /\ f = "filter"
    THEN R(Key("Left"), "filter-cursor-left", f, h)
  ELSE IF M(km.FocusInputPaneUp) /\ f = "filter"
    THEN R(Nil, "focus-input-pane-up", IF ~h THEN "input" ELSE "output", h)
  ELSE IF M(km.FocusInputPaneLeft) /\ ~h
    THEN R(Nil, "focus-input-pane-left", "input", h)
  ELSE IF M(km.FocusOutputPane) THEN R(Nil, "focus-output-pane", "output", h)
  ELSE IF M(km.FocusFilterInput) THEN R(Nil, "focus-filter-input", "filter", h)
  ELSE IF M(km.NextFocus) /\ f = "input" THEN R(Nil, "next-focus", "output", h)
  ELSE IF M(km.NextFocus) /\ f = "output" THEN R(Nil, "next-focus", "filter", h)
  ELSE IF M(km.NextFocus) /\ f = "filter" THEN R(Key("Down"), "next-focus", f, h)
  ELSE IF M(km.PreviousFocus) /\ f = "input"
    THEN R(Nil, "previous-focus", "filter", h)
  ELSE IF M(km.PreviousFocus) /\ f = "output"
    THEN R(Nil, "previous-focus", "input", h)
  ELSE IF M(km.PreviousFocus) /\ f = "filter"
    THEN R(Key("Up"), "previous-focus", f, h)
  ELSE IF M(km.ToggleInputPane) /\ ~h
    THEN R(Nil, "toggle-input-pane", IF f = "input" THEN "output" ELSE f, TRUE)
  ELSE IF M(km.ToggleInputPane) THEN R(Nil, "toggle-input-pane", f, FALSE)
  ELSE IF IsTextView(f) /\ M(km.TextviewPageUp)
    THEN R(Key("CtrlB"), "textview-page-up", f, h)
  ELSE IF IsTextView(f) /\ M(km.TextviewPageUpAlt)
    THEN R(Key("PgUp"), "textview-page-up-alt", f, h)
  ELSE IF IsTextView(f) /\ M(km.TextviewPageDown)
    THEN R(Key("CtrlF"), "textview-page-down", f, h)
  ELSE IF IsTextView(f) /\ M(km.TextviewEnd) THEN R(Nil, "textview-end", f, h)
  ELSE R(ev, "none", f, h)

\* No key event has been handled yet.
NoKey ==
  [ev |-> Nil, focus |-> "filter", hidden |-> FALSE, ret |-> Nil, act |-> "none",
   consumed |-> FALSE, submitted |-> FALSE]

\* ------------------------------------------------------------- key bindings
\* Strings are Go strings of one-byte characters; Ch(s, i) is the character
\* s[i-1] as a string.
Ch(s, i) == SubSeq(s, i, i)

Lowers == "abcdefghijklmnopqrstuvwxyz"
Uppers == "ABCDEFGHIJKLMNOPQRSTUVWXYZ"
Alphabet == 1 .. Len(Lowers)

\* unicode.ToUpper and unicode.ToLower of one character.
ToUpperNone(c) == c
ToUpper(c) ==
  IF \E i \in Alphabet : Ch(Lowers, i) = c
    THEN Ch(Uppers, CHOOSE i \in Alphabet : Ch(Lowers, i) = c)
    ELSE c

ToLowerCh(c) ==
  IF \E i \in Alphabet : Ch(Uppers, i) = c
    THEN Ch(Lowers, CHOOSE i \in Alphabet : Ch(Uppers, i) = c)
    ELSE c

\* strings.ToLower
RECURSIVE ToLower(_)
ToLower(s) == IF s = "" THEN "" ELSE ToLowerCh(Head(s)) \o ToLower(Tail(s))

\* strings.TrimSpace on a descriptor.
StringsTrimSpace(s) ==
  LET ink == {i \in 1 .. Len(s) : Ch(s, i) # " "} IN
  IF ink = {} THEN ""
  ELSE SubSeq(s, CHOOSE i \in ink : \A j \in ink : i <= j,
                 CHOOSE i \in ink : \A j \in ink : i >= j)

\* strings.HasSuffix
HasSuffix(s, suffix) ==
  Len(s) >= Len(suffix) /\ SubSeq(s, Len(s) - Len(suffix) + 1, Len(s)) = suffix

IndexFirst(s, substr) ==
  LET at == {i \in 1 .. Len(s) : Ch(s, i) = substr} IN
  IF at = {} THEN 0 ELSE CHOOSE i \in at : \A j \in at : i <= j

\* strings.LastIndex for a one-character substr, counting from 1: 0 if there
\* is none (Go counts from 0 and returns -1).
LastIndex(s, substr) ==
  LET at == {i \in 1 .. Len(s) : Ch(s, i) = substr} IN
  IF at = {} THEN 0 ELSE CHOOSE i \in at : \A j \in at : i >= j

\* strings.Split for a one-character separator.
RECURSIVE Split(_, _)
Split(s, sep) ==
  LET at == {i \in 1 .. Len(s) : Ch(s, i) = sep} IN
  IF at = {} THEN <<s>>
  ELSE LET i == CHOOSE k \in at : \A j \in at : k <= j
       IN <<SubSeq(s, 1, i - 1)>> \o Split(SubSeq(s, i + 1, Len(s)), sep)

\* strings.Join
RECURSIVE Join(_, _)
Join(elems, sep) ==
  IF elems = <<>> THEN ""
  ELSE IF Len(elems) = 1 THEN elems[1]
  ELSE elems[1] \o sep \o Join(Tail(elems), sep)

\* The key of Ctrl and the letter c (tcell.KeyCtrlA .. tcell.KeyCtrlZ).  The
\* codes of Ctrl-H, Ctrl-I and Ctrl-M are those of Backspace, Tab and Enter.
KeyCtrl(c) ==
  IF c = "h" THEN "Backspace"
  ELSE IF c = "i" THEN "Tab"
  ELSE IF c = "m" THEN "Enter"
  ELSE "Ctrl" \o ToUpper(c)

\* tcell.KeyNames, lower-cased: one name for each key code, so the keys of
\* Ctrl-H, Ctrl-I and Ctrl-M go by the names Backspace, Tab and Enter alone.
TcellKeyNames ==
  [n \in {"ctrl-" \o Ch(Lowers, i) : i \in Alphabet} \ {"ctrl-h", "ctrl-i", "ctrl-m"}
     |-> KeyCtrl(Ch(n, Len(n)))]
    @@ ("enter" :> "Enter") @@ ("backspace" :> "Backspace") @@ ("tab" :> "Tab")
    @@ ("backtab" :> "Backtab") @@ ("up" :> "Up") @@ ("down" :> "Down")
    @@ ("left" :> "Left") @@ ("right" :> "Right") @@ ("pgup" :> "PgUp")
    @@ ("pgdn" :> "PgDn")

\* var keyNameLookup
keyNameLookup ==
  ("return" :> "Enter") @@ ("pageup" :> "PgUp") @@ ("pagedown" :> "PgDn")
    @@ ("pgdown" :> "PgDn") @@ ("shift-tab" :> "Backtab") @@ TcellKeyNames

\* func isModifier(value string) bool
isModifier(value) == ToLower(value) \in {"shift", "alt", "ctrl", "control", "meta"}

\* func splitKeyBinding(value string) (mods string, base string)
splitKeyBinding(value) ==
  LET idx == LastIndex(value, "+")
      parts == Split(value, "-")
      front == 1 .. Len(parts) - 1
  IN
  IF value = "+" THEN [mods |-> "", base |-> "+"]
  ELSE IF HasSuffix(value, "++")
    THEN [mods |-> StringsTrimSpace(SubSeq(value, 1, Len(value) - 2)), base |-> "+"]
  ELSE IF idx # 0
    THEN [mods |-> StringsTrimSpace(SubSeq(value, 1, idx - 1)),
          base |-> StringsTrimSpace(SubSeq(value, idx + 1, Len(value)))]
  ELSE IF ToLower(value) \in DOMAIN keyNameLookup THEN [mods |-> "", base |-> value]
  ELSE IF Len(parts) < 2 THEN [mods |-> "", base |-> value]
  ELSE IF \E i \in front : ~isModifier(StringsTrimSpace(parts[i]))
    THEN [mods |-> "", base |-> value]
  ELSE [mods |-> Join([i \in front |-> StringsTrimSpace(parts[i])], "+"),
        base |-> StringsTrimSpace(parts[Len(parts)])]

\* The cases of the switch on a modifier in UnmarshalText.
KnownModifiersAndHyper == {"shift", "alt", "ctrl", "control", "meta", "hyper"}
KnownModifiers == {"shift", "alt", "ctrl", "control", "meta"}

\* The KeyBinding UnmarshalText is called on: the zero value.
ZeroBinding == KeyBinding("CtrlSpace", "", ModNone)

\* func (k *KeyBinding) UnmarshalText(text []byte) error: the error, and the
\* binding k is left as.
UnmarshalText(text) ==
  LET trimmed == StringsTrimSpace(text)
      split == splitKeyBinding(trimmed)
      given == IF split.mods = "" THEN <<>> ELSE Split(split.mods, "+")
      modifier == [i \in DOMAIN given |-> ToLower(StringsTrimSpace(given[i]))]
      Mask(m) == IF m = "shift" THEN "Shift"
                 ELSE IF m = "alt" THEN "Alt"
                 ELSE IF m = "meta" THEN "Meta"
                 ELSE "Ctrl"
      mods == {Mask(modifier[i]) : i \in DOMAIN modifier}
      base == StringsTrimSpace(split.base)
      ctrlName == "ctrl-" \o ToLower(base)
      Ok(key, rune, m) == [err |-> "nil", binding |-> KeyBinding(key, rune, m)]
      Fail(e) == [err |-> e, binding |-> ZeroBinding]
  IN
  IF trimmed = "" THEN Fail("key binding cannot be empty")
  ELSE IF split.base = "" THEN Fail("key binding modifier is missing a key")
  ELSE IF \E i \in DOMAIN modifier :
            modifier[i] \notin KnownModifiers
    THEN Fail("unknown modifier")
  ELSE IF ToLower(base) \in DOMAIN keyNameLookup
    THEN Ok(keyNameLookup[ToLower(base)], "", mods)
  ELSE IF "Ctrl" \in mods /\ ctrlName \in DOMAIN keyNameLookup
    THEN Ok(keyNameLookup[ctrlName], "", mods \ {"Ctrl"})
  ELSE IF Len(base) = 1
    THEN IF "Shift" \in mods /\ ToUpper(base) # base
           THEN Ok("Rune", ToUpper(base), mods \ {"Shift"})
           ELSE Ok("Rune", base, mods)
  ELSE Fail("unknown key")

\* Nothing parsed, nothing tested.
NoParse == [text |-> "", err |-> "nil", binding |-> ZeroBinding]
NoMatch == [op |-> "none", bindings |-> {}, event |-> Nil, result |-> FALSE]

\* ------------------------------------------------------------- submit
\* The colour options as submitFilter resolves them for standard output.
ResolveColourByTty(o, tty) == [o EXCEPT !.monochrome = ~tty, !.forceColor = tty]
ResolveColour(o, tty) ==
  IF ~tty /\ ~o.forceColor THEN [o EXCEPT !.monochrome = TRUE]
  ELSE IF tty /\ ~o.monochrome THEN [o EXCEPT !.forceColor = TRUE]
  ELSE o

\* func contains(arr []string, elem string) bool
ContainsLast(arr, elem) == arr # <<>> /\ arr[Len(arr)] = elem
Contains(arr, elem) == \E i \in DOMAIN arr : arr[i] = elem

NoFile == [exists |-> FALSE, lines |-> <<>>]

HistoryInitSkipFirst(path, file) ==
  [path |-> path,
   lines |-> IF path # "" /\ file.exists /\ file.lines # <<>> THEN Tail(file.lines) ELSE <<>>]

\* func (h *history) Init(path string): the lines of the file, none if the
\* file does not exist.
HistoryInit(path, file) ==
  [path |-> path, lines |-> IF path # "" /\ file.exists THEN file.lines ELSE <<>>]

\* What the file system does to one append: it succeeds, or opening the file,
\* writing the line or closing the file fails.
IoOutcomes == {"ok", "open", "write", "close"}

\* func (h *history) Add(expression string) error: the history and the file
\* it leaves, and the error it returns.
HistoryAdd(h, file, expression, io) ==
  LET e == TrimSpace(expression)
      appended == [h EXCEPT !.lines = Append(h.lines, e)]
      opened == [file EXCEPT !.exists = TRUE]
      written == [opened EXCEPT !.lines = Append(file.lines, e)]
  IN
  IF e = 0 THEN [h |-> h, file |-> file, err |-> "nil"]
  ELSE IF h.path = "" THEN [h |-> h, file |-> file, err |-> "nil"]
  ELSE IF Contains(h.lines, e) THEN [h |-> h, file |-> file, err |-> "nil"]
  ELSE IF io = "open" THEN [h |-> appended, file |-> file, err |-> "open"]
  ELSE IF io = "write" THEN [h |-> appended, file |-> opened, err |-> "nil"]
  ELSE IF io = "close" THEN [h |-> appended, file |-> written, err |-> "close"]
  ELSE [h |-> appended, file |-> written, err |-> "nil"]

\* The exit status of a submit: log.Fatalln exits with 1 if the final
\* invocation failed; otherwise app.Run returns and main ends.
ExitStatusWithHistory(addErr, writeErr) == IF writeErr \/ addErr # "nil" THEN 1 ELSE 0
ExitStatus(addErr, writeErr) == IF writeErr THEN 1 ELSE 0

\* ------------------------------------------------------------- executor
\* The Options jq is run with.  The configuration holds the library paths and
\* the command.
OptionNames == {"compact", "nullInput", "slurp", "rawOutput", "joinOutput",
                "asciiOutput", "rawInput", "monochrome", "sortKeys", "forceColor"}

Options(on, paths, command) ==
  [compact |-> "compact" \in on, nullInput |-> "nullInput" \in on,
   slurp |-> "slurp" \in on, rawOutput |-> "rawOutput" \in on,
   joinOutput |-> "joinOutput" \in on, asciiOutput |-> "asciiOutput" \in on,
   rawInput |-> "rawInput" \in on, monochrome |-> "monochrome" \in on,
   sortKeys |-> "sortKeys" \in on, forceColor |-> "forceColor" \in on,
   config |-> [LibraryPaths |-> paths, JQCommand |-> command]]

\* func (o *Options) ToSlice() []string
ToSliceOneL(o) ==
  LET Opt(on, flag) == IF on THEN <<flag>> ELSE <<>> IN
  Opt(o.compact, "-c") \o Opt(o.nullInput, "-n") \o Opt(o.slurp, "-s")
    \o Opt(o.rawOutput, "-r") \o Opt(o.joinOutput, "-j") \o Opt(o.asciiOutput, "-a")
    \o Opt(o.rawInput, "-R") \o Opt(o.monochrome, "-M") \o Opt(o.forceColor, "-C")
    \o Opt(o.sortKeys, "-S")
    \o Opt(o.config.LibraryPaths # <<>>, "-L") \o o.config.LibraryPaths

ToSlice(o) ==
  LET Opt(on, flag) == IF on THEN <<flag>> ELSE <<>>
      paths == o.config.LibraryPaths
  IN
  Opt(o.compact, "-c") \o Opt(o.nullInput, "-n") \o Opt(o.slurp, "-s")
    \o Opt(o.rawOutput, "-r") \o Opt(o.joinOutput, "-j") \o Opt(o.asciiOutput, "-a")
    \o Opt(o.rawInput, "-R") \o Opt(o.monochrome, "-M") \o Opt(o.forceColor, "-C")
    \o Opt(o.sortKeys, "-S")
    \o [i \in 1 .. 2 * Len(paths) |-> IF i % 2 = 1 THEN "-L" ELSE paths[i \div 2]]

\* Document.WriteTo for a pane: "Writer is a pane, so set options accordingly".
PaneOptionsKeepMonochrome(opts) ==
  [opts EXCEPT !.forceColor = TRUE, !.compact = FALSE, !.rawOutput = FALSE]
PaneOptions(opts) ==
  [opts EXCEPT !.forceColor = TRUE, !.monochrome = FALSE, !.compact = FALSE,
               !.rawOutput = FALSE]

\* The destinations: a display pane (*pane) or any other io.Writer.
Writers == {"pane", "buffer"}

\* What standard input copied to standard output writes: nothing for an
\* empty input.
PassThroughNothing(input) == <<>>
PassThrough(input) == IF input = "" THEN <<>> ELSE <<input>>

\* The process of one call: what it writes to its standard output, chunk by
\* chunk, what it writes to its standard error, and its exit status.  The
\* command is jq, or one that copies its input (cat).
Process(command, args, input) ==
  LET f == args[Len(args)] IN
  IF command = "cat"
    THEN [out |-> PassThrough(input), stderr |-> <<>>, code |-> 0]
    ELSE [out |-> [i \in 1 .. JqChunks(f) |-> <<f, i>>], stderr |-> JqStderr(f),
          code |-> JqExitCode(f)]

\* cmd.Run's error for a process, and WriteTo's: an *exec.ExitError for a
\* nonzero status, to which WriteTo attaches the bytes of standard error.
WithoutStderr(p) ==
  IF p.code = 0 THEN NoErr ELSE [kind |-> "exit", code |-> p.code, stderr |-> <<>>]
WithStderr(p) ==
  IF p.code = 0 THEN NoErr ELSE [kind |-> "exit", code |-> p.code, stderr |-> p.stderr]

\* The document a call runs with: WriteTo has a value receiver, so it is the
\* copy c.doc made at the call, whatever the current document is by now.
CallDocumentShared(c, current) == current
CallDocument(c, current) == c.doc

\* A document that no call is made on.
NoDocument ==
  [input |-> "", filter |-> 0, options |-> Options({}, <<>>, "jq"), ctx |-> Background]

\* ------------------------------------------------------------- autocomplete
\* const specialChars string = ".-:$/"
specialChars == ".-:$/"

\* strings.HasPrefix
HasPrefix(s, prefix) == Len(s) >= Len(prefix) /\ SubSeq(s, 1, Len(prefix)) = prefix

\* strings.CutSuffix, the string it returns
CutSuffix(s, suffix) ==
  IF HasSuffix(s, suffix) THEN SubSeq(s, 1, Len(s) - Len(suffix)) ELSE s

\* strings.ContainsAny
ContainsAny(s, chars) ==
  \E i \in 1 .. Len(s) : \E j \in 1 .. Len(chars) : Ch(s, i) = Ch(chars, j)

\* The documents autocomplete is explored with, and their keys:
\*   "plain"   {"1x": 0, "a": {"x": 0, "xy": 0}, "a-b": 0, "ab": 0}
\*   "nokey"   {"": 0, "a": {"x": 0}}
\*   "upper"   {"Ab": 0, "b": 0, "c:d": 0}
\*   "array"   [0, 0]
\* What jq prints for "[" + filt + "] | unique | first" and how it exits:
\* the sorted keys of the object at the path, numbers for an array, an error
\* for a value without keys and for a filter that does not parse.
Payloads == {"plain", "nokey", "upper", "array"}

KeysRun(input, filt) ==
  LET Ok(keys) == [err |-> FALSE, strings |-> TRUE, keys |-> keys]
      Failure == [err |-> TRUE, strings |-> FALSE, keys |-> <<>>]
  IN
  IF filt = "keys"
    THEN IF input = "plain" THEN Ok(<<"1x", "a", "a-b", "ab">>)
         ELSE IF input = "nokey" THEN Ok(<<"", "a">>)
         ELSE IF input = "upper" THEN Ok(<<"Ab", "b", "c:d">>)
         ELSE [err |-> FALSE, strings |-> FALSE, keys |-> <<>>]
  ELSE IF filt = ".a| keys"
    THEN IF input = "plain" THEN Ok(<<"x", "xy">>)
         ELSE IF input = "nokey" THEN Ok(<<"x">>)
         ELSE Failure
  ELSE Failure

\* The cache: a set of [key, entries], one for a key at most.
Cached(fm, key) == \E e \in fm : e.key = key
Lookup(fm, key) == (CHOOSE e \in fm : e.key = key).entries
Store(fm, key, entries) ==
  {e \in fm : e.key # key} \cup {[key |-> key, entries |-> entries]}

NoSuggestion ==
  [called |-> FALSE, text |-> "", hit |-> FALSE, candidates |-> <<>>, ret |-> <<>>,
   spawned |-> FALSE, panicked |-> FALSE]

\* The text of a numbered expression: white space around it for e < 0.
ExprText(e) ==
  LET n == TrimSpace(e)
      text == IF n = 0 THEN ""
              ELSE IF n = 1 THEN ".a"
              ELSE IF n = 2 THEN ".[0]"
              ELSE IF n = 3 THEN "empty"
              ELSE IF n = 4 THEN ".[]|error"
              ELSE "." \o Ch(Lowers, n)
  IN IF e < 0 THEN " " \o text \o " " ELSE text

\* colorTagRe.ReplaceAllString(s, "[$1[]") for colorTagRe = \[([^]]+)\]: every
\* "[", one character or more other than "]", "]" gets a "[" before its "]".
RECURSIVE escape(_)
escape(s) ==
  LET closing == {j \in 2 .. Len(s) : Ch(s, j) = "]"}
      first == CHOOSE j \in closing : \A k \in closing : j <= k
  IN
  IF s = "" THEN ""
  ELSE IF Ch(s, 1) = "[" /\ closing # {} /\ first >= 3
    THEN "[" \o SubSeq(s, 2, first - 1) \o "[]" \o escape(SubSeq(s, first + 1, Len(s)))
    ELSE Ch(s, 1) \o escape(SubSeq(s, 2, Len(s)))

\* h.Items: history.Init and history.Add append escape(line) to it whenever
\* they append line to h.lines.
Items(h) == [i \in DOMAIN h.lines |-> escape(ExprText(h.lines[i]))]

\* The autocomplete function for a text: what it returns, the goroutine it
\* starts and whether it panics.  Positions count from 1, pos is 0 where Go's
\* is -1; c[pos+1:] panics when the candidate is shorter than pos + 1 bytes.
SuggestKey(c, pos) == SubSeq(c, pos + 1, Len(c))
Suggest(text, fm, items) ==
  LET pos == LastIndex(text, ".")
      prefix == SubSeq(text, 1, pos - 1)
      trimmed == StringsTrimSpace(prefix)
      cur == SubSeq(text, pos + 1, Len(text))
      none == [NoSuggestion EXCEPT !.called = TRUE, !.text = text]
  IN
  IF text = "" THEN [none EXCEPT !.ret = items]
  ELSE IF pos = 0 THEN none
  ELSE IF Cached(fm, trimmed)
    THEN LET candidates == Lookup(fm, trimmed)
             short == {i \in DOMAIN candidates : Len(candidates[i]) < pos}
             Keep(c) == HasPrefix(SuggestKey(c, pos), cur)
         IN IF short # {}
              THEN [none EXCEPT !.hit = TRUE, !.candidates = candidates,
                                !.panicked = TRUE]
              ELSE [none EXCEPT !.hit = TRUE, !.candidates = candidates,
                                !.ret = SelectSeq(candidates, Keep)]
    ELSE [none EXCEPT !.spawned = TRUE]

\* The goroutine the function starts on a miss.
Goroutine(text) ==
  LET prefix == SubSeq(text, 1, LastIndex(text, ".") - 1)
  IN [prefix |-> prefix, trimmed |-> StringsTrimSpace(prefix)]

\* The goroutine's filter, the keys it reads, and the entries it builds:
\* k[0] panics for an empty key.
FillFilter(g) ==
  IF g.prefix # "" THEN CutSuffix(g.trimmed, "|") \o "| keys" ELSE "keys"

QuotedIfSpecial(k) == IF ContainsAny(k, specialChars) THEN "\"" \o k \o "\"" ELSE k
Quoted(k) ==
  LET first == ToLower(Ch(k, 1)) IN
  IF ContainsAny(k, specialChars) \/ ~(\E i \in Alphabet : Ch(Lowers, i) = first)
    THEN "\"" \o k \o "\""
    ELSE k

Entries(g, keys) == [i \in DOMAIN keys |-> g.prefix \o "." \o Quoted(keys[i])]

AcStart ==
  /\ filterMap = {}
  /\ fills = {}
  /\ suggestion = NoSuggestion
  /\ aborted = FALSE

\* ------------------------------------------------------------- initial states
SessionInit(F) ==
  /\ \E f \in F : doc = [filter |-> f, ctx |-> 1, seq |-> 0]
  /\ pending = InitPending
  /\ cancel = 1
  /\ cancelled = {}
  /\ loopPc = "wait"
  /\ d = NoDoc
  /\ err = NoErr
  /\ procs = {}
  /\ exited = NoErr
  /\ outputPane = [tv |-> <<>>, dirty |-> FALSE]
  /\ outputLineCount = 10000
  /\ ui = [pc |-> "idle"]
  /\ errorView = <<>>
  /\ fieldColor = "default"
  /\ updates = <<>>
  /\ nev = 0
  /\ batch = <<>>
  /\ nruns = 0
  /\ run = NoRun

\* The key-handling state of a session with a keymap of K and a
\* hide-input-pane setting of H: the filter field has focus.
UiStart(K, H) ==
  /\ keymap \in K
  /\ isInputPaneHidden \in H
  /\ focus = "filter"
  /\ last = NoKey
  /\ stopped = FALSE
  /\ histErr = "nil"
  /\ stderrOut = [lines |-> <<>>, fatal |-> FALSE]
  /\ stdoutOut = <<>>
  /\ exitStatus = <<>>
  /\ parsed = NoParse
  /\ matched = NoMatch

\* The same, with no call of Document.WriteTo followed in detail.
UiInit(K, H) ==
  /\ UiStart(K, H)
  /\ document = NoDocument
  /\ calls = <<>>
  /\ AcStart

OptionChoices == [monochrome : BOOLEAN, forceColor : BOOLEAN]
NoOptions == [monochrome |-> FALSE, forceColor |-> FALSE]
HistPaths == {"", "history"}
\* The history file a session finds: none, or one written by earlier
\* sessions. Releases before history.Add trimmed its argument stored the
\* expression as typed (<<-2>>), and two sessions that loaded the same file
\* each append an expression the other one appended (<<1, 1>>).
HistFiles ==
  {NoFile} \cup {[exists |-> TRUE, lines |-> l] : l \in {<<>>, <<1>>, <<2, 1>>, <<-2>>, <<1, 1>>}}

NoOp == [op |-> "none", e |-> 0, io |-> "ok"]

\* The user's colour flags, the kind of standard output, and the history as
\* filterHistory.Init(path) loads it.
EnvInit(O, T, P, L) ==
  /\ options \in O
  /\ isTty \in T
  /\ \E path \in P, file \in L :
       /\ histFile = file
       /\ filterHistory = HistoryInit(path, file)
       /\ histLoaded = [h |-> HistoryInit(path, file), file |-> file]
  /\ added = <<>>
  /\ hop = NoOp

\* The expressions a submit is explored with: the filters, the empty
\* expression, white space only, and filter 1 typed with white space around it.
SubmitFilters == -2 .. MaxFilter

\* The controller: default keys, no history.
Init ==
  /\ SessionInit(Filters)
  /\ UiInit({NoUserKeymap}, {FALSE})
  /\ EnvInit({NoOptions}, {TRUE}, {""}, {NoFile})

\* Key dispatch: every keymap, input pane shown or hidden.
KeyInit ==
  /\ SessionInit(Filters)
  /\ UiInit(UserKeymaps, BOOLEAN)
  /\ EnvInit({NoOptions}, {TRUE}, {"history"}, {NoFile})

\* Submit: every expression, colour flag, kind of output and history.
SubmitInit ==
  /\ SessionInit(SubmitFilters)
  /\ UiInit({NoUserKeymap}, {FALSE})
  /\ EnvInit(OptionChoices, BOOLEAN, HistPaths, HistFiles)

\* ------------------------------------------------------------- UI goroutine
\* What the change handler stores as the current document.
ChangedDocKeepPending(text) ==
  IF pending THEN doc ELSE [WithFilter(doc, text) EXCEPT !.seq = nev + 1]
ChangedDoc(text) == [WithFilter(doc, text) EXCEPT !.seq = nev + 1]

\* SetChangedFunc's handler, up to the comparison with doc.filter.
Changed(text) ==
  /\ UNCHANGED <<keyVars, parseVars, execVars>>
  /\ ui.pc = "idle"
  /\ nev < MaxChanges
  /\ errorView' = <<>>
  /\ fieldColor' = "default"
  /\ IF text = doc.filter
       THEN /\ nev' = nev + 1
            /\ batch' = Append(batch, text)
            /\ UNCHANGED ui
       ELSE /\ ui' = [pc |-> "cancel", text |-> text,
                       run |-> IF loopPc = "wait" THEN 0 ELSE nruns]
            /\ UNCHANGED <<nev, batch>>
  /\ UNCHANGED <<doc, pending, cancel, cancelled, loopPc, d, err, procs, exited,
                 outputPane, outputLineCount, updates, nruns, run>>

\* cancel(): an unsynchronised read of the variable the loop assigns.
ChangedCancel ==
  /\ UNCHANGED <<keyVars, parseVars, execVars>>
  /\ ui.pc = "cancel"
  /\ cancelled' = cancelled \cup {cancel}
  /\ ui' = [ui EXCEPT !.pc = "store"]
  /\ UNCHANGED <<doc, pending, cancel, loopPc, d, err, procs, exited, outputPane,
                 outputLineCount, errorView, fieldColor, updates, nev, batch,
                 nruns, run>>

\* mutex.Lock(); doc = doc.WithFilter(text); pending = true; cond.Signal().
ChangedStore ==
  /\ UNCHANGED <<keyVars, parseVars, execVars>>
  /\ ui.pc = "store"
  /\ doc' = ChangedDoc(ui.text)
  /\ pending' = TRUE
  /\ nev' = nev + 1
  /\ batch' = Append(batch, ui.text)
  /\ ui' = [pc |-> "idle"]
  /\ UNCHANGED <<cancel, cancelled, loopPc, d, err, procs, exited, outputPane,
                 outputLineCount, errorView, fieldColor, updates, nruns, run>>

\* The UI goroutine runs the function at the head of the update queue: the
\* closure the loop queued for a failed run, or a redraw.
RunUpdate ==
  /\ UNCHANGED <<keyVars, parseVars, execVars>>
  /\ ui.pc = "idle"
  /\ updates # <<>>
  /\ updates' = Tail(updates)
  /\ IF Head(updates).kind = "error"
       THEN /\ fieldColor' = "maroon"
            /\ errorView' = Append(errorView, [seq |-> Head(updates).seq,
                                               filter |-> Head(updates).filter,
                                               text |-> Head(updates).stderr])
       ELSE UNCHANGED <<fieldColor, errorView>>
  /\ UNCHANGED <<doc, pending, cancel, cancelled, loopPc, d, err, procs, exited,
                 outputPane, outputLineCount, ui, nev, batch, nruns, run>>

\* ------------------------------------------------------------- execution loop
\* cond.L.Lock(); for !pending { cond.Wait() }; d := doc; pending = false; Unlock.
DequeuedPrevious == [doc EXCEPT !.filter = d.filter]
Dequeued == doc

Snapshot ==
  /\ UNCHANGED <<keyVars, parseVars, execVars>>
  /\ loopPc = "wait"
  /\ pending
  /\ d' = Dequeued
  /\ pending' = FALSE
  /\ loopPc' = "install"
  /\ nruns' = nruns + 1
  /\ run' = [filter |-> d'.filter, seq |-> d'.seq, batch |-> batch,
             first |-> nruns = 0, kind |-> "none", code |-> 0, reported |-> FALSE,
             prev |-> IF run.kind = "exit" /\ run.code = CancelCode THEN "killed"
                      ELSE run.kind]
  /\ batch' = <<>>
  /\ UNCHANGED <<doc, cancel, cancelled, err, procs, exited, outputPane,
                 outputLineCount, ui, errorView, fieldColor, updates, nev>>

\* d.ctx, cancel = context.WithCancel(context.Background())
Install ==
  /\ UNCHANGED <<keyVars, parseVars, execVars>>
  /\ loopPc = "install"
  /\ d' = [d EXCEPT !.ctx = NewScope]
  /\ cancel' = NewScope
  /\ loopPc' = "start"
  /\ UNCHANGED <<doc, pending, cancelled, err, procs, exited, outputPane,
                 outputLineCount, ui, errorView, fieldColor, updates, nev, batch,
                 nruns, run>>

\* d.WriteTo(&outputPane) up to cmd.Start: the pane is marked dirty; a context
\* that is already done makes Start fail with the context's error.
Start ==
  /\ UNCHANGED <<keyVars, parseVars, execVars>>
  /\ loopPc = "start"
  /\ outputPane' = [outputPane EXCEPT !.dirty = TRUE]
  /\ IF d.ctx \in cancelled
       THEN /\ exited' = [kind |-> "context", code |-> 0, stderr |-> <<>>]
            /\ UNCHANGED procs
       ELSE /\ procs' = procs \cup {[run |-> nruns, ctx |-> d.ctx, filter |-> d.filter,
                                     left |-> JqChunks(d.filter)]}
            /\ exited' = NoErr
  /\ loopPc' = "running"
  /\ UNCHANGED <<doc, pending, cancel, cancelled, d, err, outputLineCount, ui,
                 errorView, fieldColor, updates, nev, batch, nruns, run>>

\* pane.Write: a chunk of the process's standard output reaches the pane,
\* which is cleared first when it is dirty.
ProcWrite ==
  /\ UNCHANGED <<keyVars, parseVars, execVars>>
  /\ \E p \in procs :
       /\ p.left > 0
       /\ procs' = (procs \ {p}) \cup {[p EXCEPT !.left = p.left - 1]}
       /\ outputPane' = [tv |-> IF outputPane.dirty THEN <<p.run>>
                                ELSE Append(outputPane.tv, p.run),
                         dirty |-> FALSE]
  /\ UNCHANGED <<doc, pending, cancel, cancelled, loopPc, d, err, exited,
                 outputLineCount, ui, errorView, fieldColor, updates, nev, batch,
                 nruns, run>>

\* The process ends on its own, its output written, with jq's exit status.
ProcExit ==
  /\ UNCHANGED <<keyVars, parseVars, execVars>>
  /\ \E p \in procs :
       /\ p.left = 0
       /\ procs' = procs \ {p}
       /\ exited' = IF JqFails(p.filter)
                      THEN [kind |-> "exit", code |-> JqExitCode(p.filter),
                            stderr |-> JqStderr(p.filter)]
                      ELSE NoErr
  /\ UNCHANGED <<doc, pending, cancel, cancelled, loopPc, d, err, outputPane,
                 outputLineCount, ui, errorView, fieldColor, updates, nev, batch,
                 nruns, run>>

\* exec.CommandContext kills the process once its context is cancelled.
ProcKill ==
  /\ UNCHANGED <<keyVars, parseVars, execVars>>
  /\ \E p \in procs :
       /\ p.ctx \in cancelled
       /\ procs' = procs \ {p}
       /\ exited' = [kind |-> "exit", code |-> CancelCode, stderr |-> <<>>]
  /\ UNCHANGED <<doc, pending, cancel, cancelled, loopPc, d, err, outputPane,
                 outputLineCount, ui, errorView, fieldColor, updates, nev, batch,
                 nruns, run>>

\* cmd.Run returns once the process has exited and its output is copied.
RunReturnedOnCancel == procs = {} \/ d.ctx \in cancelled
RunReturned == procs = {}

\* defer func() { if p.dirty && err == nil { p.tv.Clear() } }()
DeferredClearAlways(p, e) == IF p.dirty THEN [p EXCEPT !.tv = <<>>] ELSE p
DeferredClear(p, e) ==
  IF p.dirty /\ e.kind = "nil" THEN [p EXCEPT !.tv = <<>>] ELSE p

\* WriteTo returns: err is set, and the deferred function clears a pane that
\* is still dirty after a run without error.
Return ==
  /\ UNCHANGED <<keyVars, parseVars, execVars>>
  /\ loopPc = "running"
  /\ RunReturned
  /\ err' = exited
  /\ outputPane' = DeferredClear(outputPane, exited)
  /\ run' = [run EXCEPT !.kind = exited.kind, !.code = exited.code]
  /\ loopPc' = "handle"
  /\ UNCHANGED <<doc, pending, cancel, cancelled, d, procs, exited,
                 outputLineCount, ui, errorView, fieldColor, updates, nev, batch,
                 nruns>>

\* if exitErr, ok := err.(*exec.ExitError); ok { if code != -1 { ... } }
ReportedAnyExit(e) == e.kind = "exit"
Reported(e) == e.kind = "exit" /\ e.code # CancelCode

\* The loop's handling of the result.
Handle ==
  /\ UNCHANGED <<keyVars, parseVars, execVars>>
  /\ loopPc = "handle"
  /\ IF err.kind # "nil"
       THEN /\ IF Reported(err)
                 THEN /\ Len(updates) < QueueCap
                      /\ updates' = Append(updates, [kind |-> "error", seq |-> d.seq,
                                                     filter |-> d.filter,
                                                     stderr |-> err.stderr])
                      /\ run' = [run EXCEPT !.reported = TRUE]
                 ELSE UNCHANGED <<updates, run>>
            /\ UNCHANGED outputLineCount
       ELSE /\ outputLineCount' = Len(outputPane.tv)
            /\ UNCHANGED <<updates, run>>
  /\ loopPc' = "draw"
  /\ UNCHANGED <<doc, pending, cancel, cancelled, d, err, procs, exited, outputPane,
                 ui, errorView, fieldColor, nev, batch, nruns>>

\* app.Draw(), the end of the iteration.
Draw ==
  /\ UNCHANGED <<keyVars, parseVars, execVars>>
  /\ loopPc = "draw"
  /\ Len(updates) < QueueCap
  /\ updates' = Append(updates, [kind |-> "draw", seq |-> d.seq, filter |-> d.filter,
                                 stderr |-> <<>>])
  /\ loopPc' = "wait"
  /\ d' = NoDoc
  /\ err' = NoErr
  /\ UNCHANGED <<doc, pending, cancel, cancelled, procs, exited, outputPane,
                 outputLineCount, ui, errorView, fieldColor, nev, batch, nruns, run>>

\* ------------------------------------------------------------- key handling
\* submitFilter calls filterHistory.Add before the final invocation, whatever
\* that invocation will return.
SubmitAddsOnSuccess(writeErr) == ~writeErr
SubmitAdds(writeErr) == TRUE

\* submitFilter, with io what the file system does to the history append.
\* The result of filterHistory.Add is discarded.
SubmitFilter(io) ==
  LET opts == ResolveColour(options, isTty)
      writeErr == doc.ctx \in cancelled \/ JqFails(doc.filter)
      add == IF SubmitAdds(writeErr)
               THEN HistoryAdd(filterHistory, histFile, doc.filter, io)
               ELSE [h |-> filterHistory, file |-> histFile, err |-> "nil"]
  IN
  /\ stopped' = TRUE
  /\ stderrOut' = [lines |-> Append(stderrOut.lines, doc.filter), fatal |-> writeErr]
  /\ options' = opts
  /\ filterHistory' = add.h
  /\ histFile' = add.file
  /\ histErr' = add.err
  /\ added' = IF SubmitAdds(writeErr) THEN Append(added, [e |-> doc.filter, io |-> io])
                                        ELSE added
  /\ hop' = IF SubmitAdds(writeErr) THEN [op |-> "add", e |-> doc.filter, io |-> io] ELSE hop
  /\ stdoutOut' = Append(stdoutOut,
                         [filter |-> doc.filter, monochrome |-> opts.monochrome,
                          forceColor |-> opts.forceColor,
                          chunks |-> IF writeErr THEN 0 ELSE JqChunks(doc.filter),
                          failed |-> writeErr])
  /\ exitStatus' = <<ExitStatus(add.err, writeErr)>>

\* The function given to filterInput.SetDoneFunc submits on this key.
DoneFunc(km, key) == key = "Enter" /\ SubmitOnEnter(km)

\* One key event: the input capture, then, for the event it returns, the
\* focused primitive.  The filter field given Enter either lets its open
\* autocomplete list take the key (ac) or calls its done function; io is what
\* the file system does to the history append of a submit.
KeyEvent(ev) ==
  /\ ~stopped
  /\ \E km \in {Keymap(keymap)} :
     \E c \in {InputCapture(km, focus, isInputPaneHidden, ev)} :
     \E enter \in {c.ret # Nil /\ c.ret.key = "Enter" /\ focus = "filter"} :
     \E ac \in IF enter THEN BOOLEAN ELSE {FALSE} :
     \E submit \in {c.submit \/ (enter /\ ~ac /\ DoneFunc(km, c.ret.key))} :
       /\ focus' = c.focus
       /\ isInputPaneHidden' = c.hidden
       /\ last' = [ev |-> ev, focus |-> focus, hidden |-> isInputPaneHidden,
                   ret |-> c.ret, act |-> c.act, consumed |-> ac,
                   submitted |-> submit]
       /\ IF submit
            THEN \E io \in IoOutcomes : SubmitFilter(io)
            ELSE UNCHANGED <<stopped, options, filterHistory, histFile, histErr,
                             added, hop, stderrOut, stdoutOut, exitStatus>>
  /\ UNCHANGED <<keymap, isTty, histLoaded>>
  /\ UNCHANGED <<ctlVars, parseVars, execVars>>

\* The steps taken with the mutex held: the change handler's from
\* mutex.Lock() to its deferred Unlock, and the loop's from cond.L.Lock()
\* (cond.Wait returns with the lock held) to cond.L.Unlock().
UiHoldsMutex == ui.pc = "store"
LoopHoldsMutex == loopPc = "wait"

\* ------------------------------------------------------------- specifications
Next ==
  \/ \E text \in Filters : Changed(text)
  \/ ChangedCancel
  \/ ChangedStore
  \/ RunUpdate
  \/ Snapshot
  \/ Install
  \/ Start
  \/ ProcWrite
  \/ ProcExit
  \/ ProcKill
  \/ Return
  \/ Handle
  \/ Draw

Spec == Init /\ [][Next]_vars

\* The session under fair scheduling: the change handler runs to its end,
\* the UI goroutine runs the updates queued, the loop takes every step it
\* can, and a process whose scope is cancelled is killed.  A process that
\* is not cancelled need not write or end.
Fairness ==
  /\ WF_vars(ChangedCancel)
  /\ WF_vars(ChangedStore)
  /\ WF_vars(RunUpdate)
  /\ WF_vars(Snapshot)
  /\ WF_vars(Install)
  /\ WF_vars(Start)
  /\ WF_vars(ProcKill)
  /\ WF_vars(Return)
  /\ WF_vars(Handle)
  /\ WF_vars(Draw)

LiveSpec == Init /\ [][Next]_vars /\ Fairness

\* The output pane over a session in which every edit types the next
\* expression: one with output, one that fails, one that succeeds in silence.
PaneFilters == 1 .. MaxFilter + 1

PaneInit ==
  /\ SessionInit({1})
  /\ UiInit({NoUserKeymap}, {FALSE})
  /\ EnvInit({NoOptions}, {TRUE}, {""}, {NoFile})

PaneNext ==
  \/ \E text \in {doc.filter, doc.filter + 1} \cap PaneFilters : Changed(text)
  \/ ChangedCancel
  \/ ChangedStore
  \/ RunUpdate
  \/ Snapshot
  \/ Install
  \/ Start
  \/ ProcWrite
  \/ ProcExit
  \/ ProcKill
  \/ Return
  \/ Handle
  \/ Draw

PaneSpec == PaneInit /\ [][PaneNext]_vars

KeyNext == \E ev \in Events : KeyEvent(ev)

KeySpec == KeyInit /\ [][KeyNext]_vars

\* The keys a submit is explored with: Enter, and the arrows that move the
\* focus away from the filter field and back.
SubmitEvents == {ev \in Events : ev.key \in {"Enter", "Right", "Down"}}

SubmitNext == \E ev \in SubmitEvents : KeyEvent(ev)

SubmitSpec == SubmitInit /\ [][SubmitNext]_vars

\* ------------------------------------------------------------- history
\* The expressions history.Add is explored with.
HistExprs == -2 .. MaxAdds

\* One store: every path and every file it may find.
HistInit ==
  /\ SessionInit({1})
  /\ UiInit({NoUserKeymap}, {FALSE})
  /\ EnvInit({NoOptions}, {TRUE}, HistPaths, HistFiles)

\* Whether h.Add(expression) gets as far as opening the file.
OpensFile(h, expression) ==
  /\ TrimSpace(expression) # 0
  /\ h.path # ""
  /\ ~Contains(h.lines, TrimSpace(expression))

\* h.Add(e), with io what the file system does to the append, if there is one.
HistAdd(e, io) ==
  /\ Len(added) < MaxAdds
  /\ io = "ok" \/ OpensFile(filterHistory, e)
  /\ \E r \in {HistoryAdd(filterHistory, histFile, e, io)} :
       /\ filterHistory' = r.h
       /\ histFile' = r.file
       /\ histErr' = r.err
  /\ added' = Append(added, [e |-> e, io |-> io])
  /\ hop' = [op |-> "add", e |-> e, io |-> io]
  /\ UNCHANGED <<keymap, focus, isInputPaneHidden, last, stopped, options, isTty,
                 histLoaded, stderrOut, stdoutOut, exitStatus>>
  /\ UNCHANGED <<ctlVars, parseVars, execVars>>

\* The session ends and the next one loads the history from the file:
\* h.Init(path) on a new store. histLoaded keeps what the first session found.
HistLoad ==
  /\ hop.op = "add"
  /\ filterHistory' = HistoryInit(filterHistory.path, histFile)
  /\ hop' = [op |-> "init", e |-> 0, io |-> "ok"]
  /\ UNCHANGED <<keymap, focus, isInputPaneHidden, last, stopped, options, isTty,
                 histFile, histErr, histLoaded, added, stderrOut, stdoutOut, exitStatus>>
  /\ UNCHANGED <<ctlVars, parseVars, execVars>>

HistNext ==
  \/ \E e \in HistExprs, io \in IoOutcomes : HistAdd(e, io)
  \/ HistLoad

HistSpec == HistInit /\ [][HistNext]_vars

\* ------------------------------------------------------------- key binding parsing
\* The descriptors explored: Ctrl and Shift with every letter, in the
\* spellings the parser accepts, and the descriptors of the tests.
\* Lists of modifiers and base keys, and the descriptor that joins a list
\* and a key with a separator.
ModLists ==
  {<<"Ctrl">>, <<"Shift">>, <<"Alt">>, <<"Alt", "Ctrl">>, <<"Ctrl", "Shift">>,
   <<"Alt", "Shift">>}
BaseKeys == {"N", "a", "1", "Up", "Tab", "-"}
Joined(mods, base, sep) == Join(mods \o <<base>>, sep)

Descriptors ==
  {Joined(mods, base, sep) : mods \in ModLists, base \in BaseKeys, sep \in {"+", "-"}}
    \cup
  {m \o Ch(Uppers, i) : m \in {"Ctrl+", "Alt+Ctrl+"}, i \in Alphabet}
    \cup {m \o Ch(Lowers, i) : m \in {"Shift+", "Alt+Shift+", "Ctrl+Shift+"}, i \in Alphabet}
    \cup {"Ctrl-N", "ctrl+n", "control+H", "Alt+v", "Shift+G", "Shift+1", "Shift-Up", "Shift+Up", "Alt-Shift-a", "u", "+",
          "Ctrl++", " ", "", "Hyper+a", "Ctrl+", "Enter", "Return", "shift-tab",
          " Control + n ", "Meta+x", "PageDown", "a-b", "foo", "Hyper-a",
          "Ctrl+Hyper+a", "hyper + Ctrl + Up", "Ctrl-Hyper-a", "Hyper-Up", "+a",
          "Hyper+", "Ctrl++a", "-", "Ctrl-", "Shift + ", "Alt+Ctrl+"}

ParseMods == SUBSET {"Shift", "Alt", "Ctrl"}

\* The events the bindings are tested against: the keys of Ctrl and a letter
\* and some named keys, the letters and two other characters, with every
\* combination of Shift, Alt and Ctrl.
ParseEvents ==
  {NewEventKey(k, " ", m) :
     k \in {KeyCtrl(Ch(Lowers, i)) : i \in Alphabet} \cup {"Up", "Backtab", "PgDn"},
     m \in ParseMods}
    \cup {NewEventKey("Rune", r, m) :
            r \in {Ch(Lowers, i) : i \in Alphabet} \cup {Ch(Uppers, i) : i \in Alphabet}
                    \cup {"+", "1"},
            m \in ParseMods}

\* The lists a binding b is tested in: the empty list, and the default
\* bindings of an action with b added.
BindingLists(b) ==
  {{}, DefaultKeymap.LineStart \cup {b}, DefaultKeymap.FocusInputPaneUp \cup {b}}

ParseInit ==
  /\ SessionInit({1})
  /\ UiInit({NoUserKeymap}, {FALSE})
  /\ EnvInit({NoOptions}, {TRUE}, {""}, {NoFile})

\* binding.UnmarshalText(text) on a new KeyBinding.
Unmarshal ==
  /\ parsed = NoParse
  /\ \E text \in Descriptors : \E r \in {UnmarshalText(text)} :
       parsed' = [text |-> text, err |-> r.err, binding |-> r.binding]
  /\ UNCHANGED <<matched, ctlVars, keyVars, execVars>>

\* binding.Matches(event) for the binding parsed.
BindingMatches ==
  /\ parsed # NoParse
  /\ parsed.err = "nil"
  /\ matched = NoMatch
  /\ \E event \in ParseEvents :
       matched' = [op |-> "binding", bindings |-> {parsed.binding}, event |-> event,
                   result |-> Matches(parsed.binding, event)]
  /\ UNCHANGED <<parsed, ctlVars, keyVars, execVars>>

\* bindings.Matches(event) for a list with or without the binding parsed.
BindingsMatches ==
  /\ parsed # NoParse
  /\ parsed.err = "nil"
  /\ matched = NoMatch
  /\ \E event \in ParseEvents : \E bindings \in BindingLists(parsed.binding) :
       matched' = [op |-> "bindings", bindings |-> bindings, event |-> event,
                   result |-> KeyBindingsMatches(bindings, event)]
  /\ UNCHANGED <<parsed, ctlVars, keyVars, execVars>>

ParseNext == Unmarshal \/ BindingMatches \/ BindingsMatches

ParseSpec == ParseInit /\ [][ParseNext]_vars

\* ------------------------------------------------------------- Document.WriteTo
\* The filter of the input pane, ".", and the filter autocomplete runs to
\* list the keys, among the numbered expressions.
DotFilter == 1
KeysFilter == 3

\* The expressions a call is made with: one more kind than the session
\* controller is explored with, the one that fails after some output.
ExecFilters == 1 .. MaxFilter + 2

\* The calls the session makes: the execution loop's d.WriteTo(&outputPane),
\* the input pane's doc.WithFilter(".").WriteTo(&inputPane), autocomplete's
\* doc.WithFilter(...).WriteTo(&buf) and the submit's doc.WriteTo(os.Stdout).
CallKinds == {"loop", "input", "complete", "submit"}

NewCall(kind, dd) ==
  [kind |-> kind,
   w |-> IF kind \in {"loop", "input"} THEN "pane" ELSE "buffer",
   doc |-> IF kind = "input" THEN WithFilter(dd, DotFilter)
           ELSE IF kind = "complete" THEN WithFilter(dd, KeysFilter)
           ELSE dd,
   pc |-> "called", opts |-> dd.options, args |-> <<>>, out |-> <<>>, n |-> 0,
   err |-> NoErr]

\* A document for every filter, input, command and set of options given.
DocumentInit(F, I, O) ==
  /\ \E f \in F, i \in I, o \in O :
       document = [input |-> i, filter |-> f, options |-> o, ctx |-> Background]
  /\ calls = <<>>
  /\ AcStart

\* Every set of options, with no, one and two library paths.
AllOptions ==
  {Options(on, paths, "jq") :
     on \in SUBSET OptionNames, paths \in {<<>>, <<"a">>, <<"b", "a">>}}

\* The options the calls side by side are explored with.
SomeOptions ==
  {Options(on, <<>>, command) :
     on \in {{}, {"monochrome", "compact"}}, command \in {"jq", "cat"}}

SliceInit ==
  /\ SessionInit({1})
  /\ UiStart({NoUserKeymap}, {FALSE})
  /\ EnvInit({NoOptions}, {TRUE}, {""}, {NoFile})
  /\ DocumentInit({1}, {"doc"}, AllOptions)

ExecInit ==
  /\ SessionInit({1})
  /\ UiStart({NoUserKeymap}, {FALSE})
  /\ EnvInit({NoOptions}, BOOLEAN, {""}, {NoFile})
  /\ DocumentInit({1}, {"", "doc"}, SomeOptions)
  /\ document.input = "" => document.options.config.JQCommand = "cat"

\* A call of WriteTo is made: the receiver is a copy of the document.  The
\* input pane is filled once and a filter is submitted once; the execution
\* loop makes its next call when the last one has returned; the goroutines
\* of autocomplete run side by side.
Call ==
  /\ Len(calls) < MaxCalls
  /\ \E kind \in CallKinds :
       /\ kind \in {"input", "submit"} => \A i \in DOMAIN calls : calls[i].kind # kind
       /\ kind = "loop" =>
            \A i \in DOMAIN calls : calls[i].kind = "loop" => calls[i].pc = "done"
       /\ calls' = Append(calls, NewCall(kind, document))
  /\ UNCHANGED <<document, acVars, ctlVars, keyVars, parseVars>>

\* WriteTo up to cmd.Run: the options for the destination, and the arguments.
Exec ==
  /\ \E i \in DOMAIN calls :
       /\ calls[i].pc = "called"
       /\ \E dd \in {CallDocument(calls[i], document)} :
          \E opts \in {IF calls[i].w = "pane" THEN PaneOptions(dd.options)
                                             ELSE dd.options} :
            calls' = [calls EXCEPT ![i].pc = "running",
                                   ![i].opts = opts,
                                   ![i].args = Append(ToSlice(opts), dd.filter)]
  /\ UNCHANGED <<document, acVars, ctlVars, keyVars, parseVars>>

\* cmd.Run returns and WriteTo with it: the output has reached the
\* destination, the count returned is 0, the error is cmd.Run's.
Finish ==
  /\ \E i \in DOMAIN calls :
       /\ calls[i].pc = "running"
       /\ \E dd \in {CallDocument(calls[i], document)} :
          \E p \in {Process(dd.options.config.JQCommand, calls[i].args, dd.input)} :
            calls' = [calls EXCEPT ![i].pc = "done",
                                   ![i].out = p.out,
                                   ![i].n = 0,
                                   ![i].err = WithStderr(p)]
  /\ UNCHANGED <<document, acVars, ctlVars, keyVars, parseVars>>

\* The change handler stores a document with the new text; the expressions
\* are numbered in the order the user types them.
Edit ==
  /\ document.filter + 1 \in ExecFilters
  /\ document' = WithFilter(document, document.filter + 1)
  /\ UNCHANGED <<calls, acVars, ctlVars, keyVars, parseVars>>

\* submitFilter resolves the colour options of the current document.
Resolve ==
  /\ ResolveColour(document.options, isTty) # document.options
  /\ document' = [document EXCEPT !.options = ResolveColour(document.options, isTty)]
  /\ UNCHANGED <<calls, acVars, ctlVars, keyVars, parseVars>>

SliceNext == (calls = <<>> /\ Call) \/ Exec

SliceSpec == SliceInit /\ [][SliceNext]_vars

ExecNext == Call \/ Exec \/ Finish \/ Edit \/ Resolve

ExecSpec == ExecInit /\ [][ExecNext]_vars

\* ------------------------------------------------------------- autocomplete
\* The texts the autocomplete function is called with.
AcTexts ==
  {"", "a", ".", ".a", ".x", ".a.", ".a.x", ".ab.", " .", "   .", " .a.", " .a.x"}

AcInit ==
  /\ SessionInit({1})
  /\ UiStart({NoUserKeymap}, {FALSE})
  /\ EnvInit({NoOptions}, {TRUE}, {"history"}, HistFiles)
  /\ DocumentInit({1}, Payloads, {Options({}, <<>>, "jq")})

\* tview calls the autocomplete function with the text of the field.
SuggestCall ==
  /\ ~aborted
  /\ \E text \in AcTexts :
     \E r \in {Suggest(text, filterMap, Items(filterHistory))} :
       /\ r.spawned => (Goroutine(text) \in fills \/ Cardinality(fills) < MaxCalls)
       /\ suggestion' = r
       /\ aborted' = r.panicked
       /\ fills' = IF r.spawned THEN fills \cup {Goroutine(text)} ELSE fills
  /\ UNCHANGED <<filterMap, document, calls, ctlVars, keyVars, parseVars>>

\* The goroutine: the keys are read and parsed, the entries are built and
\* stored, and filterInput.Autocomplete() calls the function again with the
\* text of the field.
Fill ==
  /\ ~aborted
  /\ \E g \in fills :
     \E r \in {KeysRun(document.input, FillFilter(g))} :
       IF r.err \/ ~r.strings
         THEN /\ fills' = fills \ {g}
              /\ UNCHANGED <<filterMap, suggestion, aborted>>
       ELSE IF \E i \in DOMAIN r.keys : r.keys[i] = ""
         THEN /\ fills' = fills \ {g}
              /\ aborted' = TRUE
              /\ UNCHANGED <<filterMap, suggestion>>
       ELSE \E again \in {Suggest(suggestion.text,
                                  Store(filterMap, g.trimmed, Entries(g, r.keys)),
                                  Items(filterHistory))} :
              /\ filterMap' = Store(filterMap, g.trimmed, Entries(g, r.keys))
              /\ suggestion' = again
              /\ aborted' = again.panicked
              /\ fills' = (fills \ {g}) \cup
                            (IF again.spawned THEN {Goroutine(suggestion.text)} ELSE {})
  /\ UNCHANGED <<document, calls, ctlVars, keyVars, parseVars>>

AcNext == SuggestCall \/ Fill

AcSpec == AcInit /\ [][AcNext]_vars

\* ------------------------------------------------------------- properties
LastOf(s) == s[Len(s)]

\* C1: latest wins.  The change events handled between two snapshots of the
\* loop result in one execution, and it runs the expression of the last of
\* them: an execution other than the first always follows at least one change,
\* and the expression it runs is the text of the last change handled before
\* its snapshot.
C1_LatestWins ==
  nruns > 0 =>
    /\ run.batch # <<>> => run.filter = LastOf(run.batch)
    /\ run.batch = <<>> => run.first

\* Three changes, each to a different text than the one before, were handled
\* before the loop woke, and the one execution they caused has ended.
C1_Witness ==
  /\ nruns = 1
  /\ Len(run.batch) = 3
  /\ run.batch[1] # run.batch[2]
  /\ run.batch[2] # run.batch[3]
  /\ run.kind # "none"

\* C2: once the change handler has called cancel() for a change that arrived
\* while an execution was in flight (ui.run, taken when the handler began, is
\* that execution), a process of that execution runs under a cancelled scope.
C2_InFlightCancelled ==
  \A p \in procs :
    (ui.pc = "store" /\ ui.run = p.run) => p.ctx \in cancelled

\* C3: without any change event the loop performs one execution, of the
\* initial expression, and then blocks: at its wait it either has not run yet
\* and pending is set, or has run exactly once and pending is clear.
NoChange == nev = 0 /\ ui.pc = "idle"

C3_InitialRun ==
  NoChange =>
    /\ nruns <= 1
    /\ nruns = 1 => (run.first /\ run.filter = doc.filter /\ run.batch = <<>>)
    /\ loopPc = "wait" => (nruns = 1 <=> ~pending)

C3_Witness ==
  /\ NoChange
  /\ nruns = 1
  /\ run.kind # "none"
  /\ loopPc = "wait"
  /\ ~pending

\* C4: at most one jq process writing to the output pane is alive, it belongs
\* to the execution the loop is waiting for, and the pane never holds chunks
\* of two runs.
C4_OneInFlight ==
  /\ Cardinality(procs) <= 1
  /\ \A p \in procs : p.run = nruns /\ loopPc = "running"
  /\ \A i, j \in DOMAIN outputPane.tv : outputPane.tv[i] = outputPane.tv[j]

\* The run before this one was killed by a cancellation, and this run's
\* process is alive and has written to the pane.
C4_Witness ==
  /\ run.prev = "killed"
  /\ \E p \in procs : p.left = 0 /\ outputPane.tv = <<p.run, p.run>>

\* C5: the error pane never shows the result of an execution that a later
\* change has superseded.
C5_NoStaleResult ==
  ui.pc = "idle" => \A i \in DOMAIN errorView : errorView[i].seq = doc.seq

\* C6: after the last execution completed successfully the error pane is
\* empty, the field is not styled as error and the line count is the pane's.
C6_SuccessClears ==
  (loopPc \in {"draw", "wait"} /\ run.kind = "nil") =>
    /\ errorView = <<>>
    /\ fieldColor = "default"
    /\ outputLineCount = Len(outputPane.tv)

\* C7: an execution whose result has been handled has queued the error update
\* exactly when it ended with an exit status other than -1; an update carries
\* the stderr jq wrote for its expression, the error pane holds the texts so
\* received, and the field is styled as error exactly while the pane holds one.
C7_ErrorState ==
  /\ (loopPc \in {"draw", "wait"} /\ nruns > 0) =>
       (run.reported <=> (run.kind = "exit" /\ run.code # CancelCode))
  /\ loopPc \notin {"draw", "wait"} => ~run.reported
  /\ \A i \in DOMAIN updates :
       updates[i].kind = "error" =>
         /\ JqFails(updates[i].filter)
         /\ updates[i].stderr = JqStderr(updates[i].filter)
  /\ \A i \in DOMAIN errorView : errorView[i].text = JqStderr(errorView[i].filter)
  /\ (errorView # <<>>) <=> (fieldColor = "maroon")

\* The failed execution's update has been applied: the pane holds its stderr.
C7_Witness ==
  /\ run.reported
  /\ errorView = <<[seq |-> run.seq, filter |-> run.filter,
                    text |-> JqStderr(run.filter)]>>
  /\ fieldColor = "maroon"

\* The last key event was a character without modifiers, received while the
\* filter field had focus.
TypedInField ==
  /\ last.ev # Nil
  /\ last.focus = "filter"
  /\ last.ev.key = "Rune"
  /\ last.ev.mods = ModNone

\* The last key event matched a submit-filter binding of the keymap.
MatchedSubmit ==
  /\ last.ev # Nil
  /\ KeyBindingsMatches(Keymap(keymap).SubmitFilter, last.ev)

PassedThrough ==
  /\ last.ret = last.ev
  /\ last.act = "none"
  /\ ~last.submitted
  /\ focus = last.focus
  /\ isInputPaneHidden = last.hidden

\* C8, as the code has it: for every keymap, a character without modifiers
\* received while the filter field has focus is passed through unchanged and
\* triggers no action unless it matches a submit-filter binding, which is
\* tested first and submits; it is tested before every other binding.
C8_TypingPassesUnlessSubmit ==
  TypedInField =>
    IF MatchedSubmit
      THEN last.act = "submit-filter" /\ last.ret = Nil /\ stopped
      ELSE PassedThrough

\* The user bound an action other than submit to the plain character x, and
\* x typed in the filter field was passed through.
C8_Witness ==
  /\ keymap.action \notin {"none", "SubmitFilter"}
  /\ keymap.binding = KeyBinding("Rune", "x", ModNone)
  /\ TypedInField
  /\ last.ev.rune = "x"
  /\ PassedThrough

\* C8 as stated: for every keymap a character without modifiers received while
\* the filter field has focus is passed through and triggers no action.
C8_TypingAlwaysPasses == TypedInField => PassedThrough

\* C9: a key event matching a submit-filter binding, not taken by an open
\* autocomplete list, closes the session and performs the submit whichever
\* primitive had focus.
C9_SubmitWithAnyFocus ==
  (MatchedSubmit /\ ~last.consumed) =>
    /\ stopped
    /\ last.submitted
    /\ stderrOut.lines = <<doc.filter>>
    /\ Len(stdoutOut) = 1

\* C10: once submitted, the final invocation has been run against standard
\* output whatever the history append returned, and the exit status is 1 if
\* that invocation failed (the error is then reported) and 0 if it did not;
\* before the submit the process has not exited.
C10_ExitStatus ==
  IF stopped
    THEN /\ Len(stdoutOut) = 1
         /\ stdoutOut[1].filter = doc.filter
         /\ exitStatus = <<IF stdoutOut[1].failed THEN 1 ELSE 0>>
         /\ stderrOut.fatal = stdoutOut[1].failed
    ELSE exitStatus = <<>> /\ stdoutOut = <<>>

\* The history append of a submit failed and the process exited with 0.
C10_Witness ==
  /\ stopped
  /\ histErr # "nil"
  /\ exitStatus = <<0>>

C12_ColourResolution ==
  [][(~stopped /\ stopped') =>
       /\ options'.monochrome = (options.monochrome \/ (~isTty /\ ~options.forceColor))
       /\ options'.forceColor = (options.forceColor \/ (isTty /\ ~options.monochrome))
       /\ options.monochrome => options'.monochrome
       /\ options.forceColor => options'.forceColor
       /\ (options'.monochrome /\ options'.forceColor) =>
            (options.monochrome /\ options.forceColor)
       /\ stdoutOut'[1].monochrome = options'.monochrome
       /\ stdoutOut'[1].forceColor = options'.forceColor]_vars

\* A submit to a pipe with force-color set by the user: colour stays forced
\* and monochrome stays off.
C12_Witness ==
  /\ stopped
  /\ ~isTty
  /\ options.forceColor
  /\ ~options.monochrome

\* ------------------------------------------------------------- history store
\* The step is one call of history.Add.
AddStep == hop'.op = "add" /\ Len(added') = Len(added) + 1

\* The store has a path, found no line, and the first call of history.Add
\* and the one of this step met a working file system.
SecondAddToEmpty ==
  /\ filterHistory.path # ""
  /\ histLoaded.file.lines = <<>>
  /\ Len(added) = 1
  /\ hop.op = "add"
  /\ added[1].io = "ok"
  /\ hop'.io = "ok"

C14_EmptyPathError ==
  (hop.op = "add" /\ filterHistory.path = "") =>
    IF TrimSpace(hop.e) # 0 THEN histErr = "EmptyPath" ELSE histErr = "nil"

\* The empty expression and the one of white space only.
Blank == {0, -1}

\* C15: history.Add of an empty or white-space-only expression is a successful
\* no-op whatever the path: it returns no error, leaves the history of the
\* store as it was, and neither creates nor changes the file.
C15_BlankIsNoOp ==
  [][(AddStep /\ hop'.e \in Blank) =>
       (histErr' = "nil" /\ filterHistory' = filterHistory /\ histFile' = histFile)]_vars

\* White space only was added to a store with a path and no file: there is
\* still no file, and no line in the store.
C15_Witness ==
  /\ hop.op = "add"
  /\ hop.e = -1
  /\ Len(added) = 1
  /\ filterHistory.path # ""
  /\ filterHistory.lines = <<>>
  /\ histFile = NoFile
  /\ histErr = "nil"

\* Every call of history.Add so far met a working file system, on a store
\* with a path whose file was absent at first, and the history has just been
\* loaded from the file.
LoadedAfterAdds ==
  /\ hop.op = "init"
  /\ filterHistory.path # ""
  /\ histLoaded.file = NoFile
  /\ \A i \in DOMAIN added : added[i].io = "ok"

PairwiseDistinct(l) == \A i, j \in DOMAIN l : i # j => l[i] # l[j]

IsPrefix(l, m) == Len(l) <= Len(m) /\ \A i \in DOMAIN l : m[i] = l[i]

\* C17: the history of the store is a sequence of pairwise different strings
\* in every state, and every call of history.Add leaves the sequence it found
\* as a prefix of the one it leaves.
C17_DistinctAndPrefix ==
  [][/\ PairwiseDistinct(filterHistory.lines)
     /\ PairwiseDistinct(filterHistory'.lines)
     /\ AddStep => IsPrefix(filterHistory.lines, filterHistory'.lines)]_vars

\* ------------------------------------------------------------- key bindings
\* The key codes are equal, the modifier sets are equal, and for a binding to
\* a character the characters are equal.
Exact(b, event) ==
  /\ event.key = b.key
  /\ event.mods = b.mods
  /\ b.key = "Rune" => event.rune = b.rune

\* C18: a key binding matches an event exactly when the key codes are equal,
\* the modifier sets are equal and, for a binding to a character, the
\* characters are equal; a list of bindings matches exactly when one of its
\* members does.
C18_ExactMatch ==
  matched.op # "none" =>
    matched.result = (\E b \in matched.bindings : Exact(b, matched.event))

\* A list matched through one member while another member, with the key of
\* the event and one modifier more, did not.
C18_Witness ==
  /\ matched.op = "bindings"
  /\ matched.result
  /\ \E b, c \in matched.bindings :
       /\ Exact(b, matched.event)
       /\ c.key = matched.event.key
       /\ c.mods # matched.event.mods
       /\ matched.event.mods \subseteq c.mods

\* C19: for every letter X, "Ctrl+X" parses to a binding that matches the
\* key of Ctrl and X with no modifier and does not match that key with a
\* modifier added; the other modifiers of the descriptor are kept in the
\* binding ("Alt+Ctrl+X" matches that key with Alt alone).
C19_CtrlLetter ==
  \A i \in Alphabet : \A m \in {<<"", ModNone>>, <<"Alt+", {"Alt"}>>} :
    parsed.text = m[1] \o "Ctrl+" \o Ch(Uppers, i) =>
      /\ parsed.err = "nil"
      /\ parsed.binding.mods = m[2]
      /\ (matched.op = "binding" /\ matched.event.key = KeyCtrl(Ch(Lowers, i)))
           => matched.result = (matched.event.mods = m[2])

\* The descriptor parsed is the modifiers m[1] before the small letter i; m[2]
\* is the modifiers of m[1] other than Shift.
ShiftedLetter(m, i) == parsed.text = m[1] \o Ch(Lowers, i)

\* The binding parsed is the character r with the modifiers mods, and the
\* event it was tested against, if any, matched exactly when it is that.
IsRuneBinding(r, mods) ==
  /\ parsed.err = "nil"
  /\ parsed.binding = KeyBinding("Rune", r, mods)
  /\ matched.op = "binding" =>
       matched.result = (matched.event = NewEventKey("Rune", r, mods))

\* C20 (as the code has it): a single small letter r with Shift among the
\* modifiers parses to the capital letter with Shift removed and the other
\* modifiers kept ("Shift+g" matches 'G' alone and not 'g', "Alt+Shift+a"
\* matches 'A' with Alt alone), unless Ctrl is among the modifiers and Ctrl
\* with r names a key: then it parses to that key with Ctrl removed and
\* Shift kept.
C20_ShiftLetter ==
  \A i \in Alphabet :
    /\ \A m \in {<<"Shift+", ModNone>>, <<"Alt+Shift+", {"Alt"}>>} :
         ShiftedLetter(m, i) => IsRuneBinding(Ch(Uppers, i), m[2])
    /\ ShiftedLetter(<<"Ctrl+Shift+", {"Ctrl"}>>, i) =>
         IF ("ctrl-" \o Ch(Lowers, i)) \in DOMAIN keyNameLookup
           THEN /\ parsed.err = "nil"
                /\ parsed.binding = KeyBinding(keyNameLookup["ctrl-" \o Ch(Lowers, i)], "", {"Shift"})
           ELSE IsRuneBinding(Ch(Uppers, i), {"Ctrl"})

\* "Alt+Shift+a" was parsed and matched the event of 'A' with Alt alone.
C20_Witness ==
  /\ parsed.text = "Alt+Shift+a"
  /\ matched.op = "binding"
  /\ matched.event = NewEventKey("Rune", "A", {"Alt"})
  /\ matched.result

\* C20 (as stated): a single small letter r with Shift among the modifiers
\* parses to the capital letter with Shift removed and all other modifiers
\* kept.
C20_ShiftAlwaysFolds ==
  \A i \in Alphabet :
    \A m \in {<<"Shift+", ModNone>>, <<"Alt+Shift+", {"Alt"}>>, <<"Ctrl+Shift+", {"Ctrl"}>>} :
      ShiftedLetter(m, i) => IsRuneBinding(Ch(Uppers, i), m[2])

\* The names of the modifiers.
ModifierWords == {"shift", "alt", "ctrl", "control", "meta"}

\* The descriptor parsed, trimmed, and its parts around the last '+'.
Trimmed == StringsTrimSpace(parsed.text)
BeforePlus == StringsTrimSpace(SubSeq(Trimmed, 1, LastIndex(Trimmed, "+") - 1))
AfterPlus == StringsTrimSpace(SubSeq(Trimmed, LastIndex(Trimmed, "+") + 1, Len(Trimmed)))

\* Some segment of the sequence segs other than the last is not a modifier.
StrangeSegment(segs) ==
  \E i \in 1 .. Len(segs) - 1 : ToLower(StringsTrimSpace(segs[i])) \notin ModifierWords

\* The descriptor just parsed has no '+', is not the name of a key, and a
\* segment before its last '-' is not a modifier.
StrangeHyphenSegment ==
  /\ parsed # NoParse
  /\ matched = NoMatch
  /\ LastIndex(Trimmed, "+") = 0
  /\ ToLower(Trimmed) \notin DOMAIN keyNameLookup
  /\ StrangeSegment(Split(Trimmed, "-"))

\* C21 (as the code has it): with '+' as the separator, a key after the
\* last '+' and text before it, a segment before the last '+' that is not
\* one of shift, alt, ctrl, control, meta makes the parse fail with the
\* unknown-modifier error.  With '-' as the separator such a segment makes
\* the whole descriptor the key, and the parse fails with the unknown-key
\* error unless the descriptor is one character.
C21_UnknownModifier ==
  /\ ( /\ parsed # NoParse
       /\ matched = NoMatch
       /\ LastIndex(Trimmed, "+") # 0
       /\ AfterPlus # ""
       /\ BeforePlus # ""
       /\ StrangeSegment(Split(BeforePlus, "+") \o <<AfterPlus>>) )
     => parsed.err = "unknown modifier"
  /\ StrangeHyphenSegment =>
       IF Len(Trimmed) = 1 THEN parsed.err = "nil" ELSE parsed.err = "unknown key"

\* "Ctrl+Hyper+a" was parsed: the unknown modifier is not the first segment.
C21_Witness ==
  /\ parsed.text = "Ctrl+Hyper+a"
  /\ parsed.err = "unknown modifier"
  /\ parsed.binding = ZeroBinding

\* No segment of segs is empty or white space only.
NoEmptySegment(segs) == \A i \in DOMAIN segs : StringsTrimSpace(segs[i]) # ""

\* C21 (as stated): for a descriptor that is not the name of a key, with
\* either separator (and no empty segment), a segment before the last one
\* that is not a modifier makes the parse fail with the unknown-modifier
\* error.
C21_EitherSeparator ==
  /\ ( /\ parsed # NoParse
       /\ matched = NoMatch
       /\ LastIndex(Trimmed, "+") # 0
       /\ NoEmptySegment(Split(Trimmed, "+"))
       /\ StrangeSegment(Split(Trimmed, "+")) )
     => parsed.err = "unknown modifier"
  /\ (StrangeHyphenSegment /\ NoEmptySegment(Split(Trimmed, "-")))
     => parsed.err = "unknown modifier"

\* The descriptor just parsed is one or more modifiers, each followed by the
\* separator sep, and nothing after the last.
ModifiersOnly(sep) ==
  LET segs == Split(StringsTrimSpace(parsed.text), sep) IN
  /\ Len(segs) >= 2
  /\ StringsTrimSpace(segs[Len(segs)]) = ""
  /\ \A i \in 1 .. Len(segs) - 1 : ToLower(StringsTrimSpace(segs[i])) \in ModifierWords

\* C22: parsing an empty or white-space-only descriptor fails with the
\* empty-binding error, parsing modifiers followed by a separator and no key
\* fails with the missing-key error, and both leave the binding as it was.
C22_EmptyAndMissingKey ==
  (parsed # NoParse /\ matched = NoMatch) =>
    /\ StringsTrimSpace(parsed.text) = "" =>
         (parsed.err = "key binding cannot be empty" /\ parsed.binding = ZeroBinding)
    /\ (ModifiersOnly("+") \/ (Len(Split(parsed.text, "+")) = 1 /\ ModifiersOnly("-"))) =>
         (parsed.err = "key binding modifier is missing a key" /\ parsed.binding = ZeroBinding)

\* "Alt+Ctrl+" was parsed: two modifiers and no key.
C22_Witness ==
  /\ parsed.text = "Alt+Ctrl+"
  /\ parsed.err = "key binding modifier is missing a key"
  /\ parsed.binding = ZeroBinding

\* ------------------------------------------------------------- executor properties
\* The flag of every boolean option.
FlagOf ==
  [compact |-> "-c", nullInput |-> "-n", slurp |-> "-s", rawOutput |-> "-r",
   joinOutput |-> "-j", asciiOutput |-> "-a", rawInput |-> "-R",
   monochrome |-> "-M", forceColor |-> "-C", sortKeys |-> "-S"]

\* The calls that have built their arguments.
Started == {i \in DOMAIN calls : calls[i].pc # "called"}

\* The arguments before the filter expression hold the flag.
HasFlag(c, flag) == \E i \in 1 .. Len(c.args) - 1 : c.args[i] = flag

\* C27: for every option set, the arguments built for the subprocess hold
\* each option's flag if and only if the option is enabled in the options the
\* call runs with, then one adjacent "-L", path pair per library path in the
\* configured order, and the filter expression as the last argument.
C27_ArgumentList ==
  \A i \in Started :
    LET c == calls[i]
        paths == c.opts.config.LibraryPaths
        k == Len(c.args) - 1 - 2 * Len(paths)
    IN
    /\ \A name \in OptionNames : HasFlag(c, FlagOf[name]) <=> c.opts[name]
    /\ k = Cardinality({name \in OptionNames : c.opts[name]})
    /\ \A j \in 1 .. Len(paths) :
         c.args[k + 2 * j - 1] = "-L" /\ c.args[k + 2 * j] = paths[j]
    /\ c.args[Len(c.args)] = c.doc.filter

C27_Witness ==
  \E i \in Started :
    /\ calls[i].w = "buffer"
    /\ calls[i].doc.options.monochrome /\ ~calls[i].doc.options.forceColor
    /\ calls[i].args = <<"-M", "-S", "-L", "b", "-L", "a", KeysFilter>>

\* C25: for every combination of options, a call whose destination is a
\* pane passes -C and none of -M, -c and -r; a call to a plain destination
\* runs with the options unchanged; the caller's document keeps its options.
C25_PaneOverrides ==
  \A i \in Started :
    LET c == calls[i] IN
    /\ c.w = "pane" =>
         /\ HasFlag(c, "-C")
         /\ ~HasFlag(c, "-M") /\ ~HasFlag(c, "-c") /\ ~HasFlag(c, "-r")
         /\ ~(c.opts.monochrome /\ c.opts.forceColor)
         /\ \A name \in OptionNames \ {"forceColor", "monochrome", "compact", "rawOutput"} :
              c.opts[name] = c.doc.options[name]
    /\ c.w # "pane" => c.opts = c.doc.options
    /\ c.doc.options = document.options

C25_Witness ==
  \E i \in Started :
    /\ calls[i].kind = "loop"
    /\ calls[i].doc.options.monochrome /\ calls[i].doc.options.compact
    /\ calls[i].doc.options.rawOutput /\ ~calls[i].doc.options.forceColor
    /\ calls[i].doc.options.slurp
    /\ calls[i].args = <<"-s", "-C", 1>>
    /\ document.options.monochrome /\ ~document.options.forceColor

\* The calls that have returned, and among them those whose subprocess was
\* jq with a failing filter, and those whose command passes its input through.
Returned == {i \in DOMAIN calls : calls[i].pc = "done"}
Failed ==
  {i \in Returned : calls[i].doc.options.config.JQCommand = "jq"
                      /\ JqFails(calls[i].doc.filter)}
Piped == {i \in Returned : calls[i].doc.options.config.JQCommand = "cat"}

\* C23: whenever the subprocess exits with a nonzero status, WriteTo returns
\* an exit error that carries exactly the bytes the subprocess wrote to its
\* standard error and returns the count 0; the destination holds what the
\* subprocess wrote to its standard output before it failed.
C23_ExitErrorCarriesStderr ==
  \A i \in Failed :
    LET c == calls[i] IN
    /\ c.err.kind = "exit" /\ c.err.code # 0
    /\ c.err.stderr = <<"jq: error", c.doc.filter>>
    /\ c.n = 0
    /\ Len(c.out) = JqChunks(c.doc.filter)
    /\ \A j \in DOMAIN c.out : c.out[j] = <<c.doc.filter, j>>

C23_Witness ==
  \E i \in Failed :
    /\ calls[i].doc.filter = 4
    /\ calls[i].err = [kind |-> "exit", code |-> 5, stderr |-> <<"jq: error", 4>>]
    /\ calls[i].out = <<<<4, 1>>>>
    /\ calls[i].n = 0

\* C23 as stated: after a nonzero exit the error carries the bytes of
\* standard error and nothing has been written to the destination.
C23_NothingWritten ==
  \A i \in Failed :
    /\ calls[i].err.stderr = <<"jq: error", calls[i].doc.filter>>
    /\ calls[i].out = <<>>

\* C24: with a pass-through command the destination receives exactly the
\* payload of the document, no error is returned, and the count returned is 0.
C24_PassThrough ==
  \A i \in Piped :
    LET c == calls[i] IN
    /\ c.err = NoErr
    /\ c.doc.input # "" => c.out = <<c.doc.input>>
    /\ c.doc.input = "" => c.out = <<>>
    /\ c.n = 0

C24_Witness ==
  \E i \in Piped :
    /\ calls[i].kind = "submit"
    /\ calls[i].doc.input = "doc"
    /\ calls[i].out = <<"doc">>
    /\ calls[i].n = 0

\* C24 as stated: the count returned is the number of bytes written to the
\* destination, the length of the payload.
C24_CountIsLength ==
  \A i \in Piped :
    /\ calls[i].doc.input # "" => calls[i].out = <<calls[i].doc.input>>
    /\ calls[i].n = Len(calls[i].doc.input)

\* ------------------------------------------------------------- pane properties
\* A step in which a process writes a chunk, and one in which WriteTo returns.
WriteStep ==
  \E p \in procs :
    p.left > 0 /\ procs' = (procs \ {p}) \cup {[p EXCEPT !.left = p.left - 1]}
ReturnStep == loopPc = "running" /\ loopPc' = "handle"

\* C26: the contents of the output pane stay in place until the first chunk
\* of a run is written, which replaces them; a run that returns an error, a
\* cancellation included, without having written leaves them in place; a run
\* that returns no error without having written leaves the pane empty.
C26_ClearOnWrite ==
  [][/\ ~WriteStep /\ ~ReturnStep => outputPane'.tv = outputPane.tv
     /\ WriteStep /\ outputPane.dirty => Len(outputPane'.tv) = 1
     /\ WriteStep /\ ~outputPane.dirty =>
          SubSeq(outputPane'.tv, 1, Len(outputPane.tv)) = outputPane.tv
     /\ ReturnStep /\ ~outputPane.dirty => outputPane'.tv = outputPane.tv
     /\ ReturnStep /\ outputPane.dirty /\ exited.kind # "nil" =>
          outputPane'.tv = outputPane.tv
     /\ ReturnStep /\ outputPane.dirty /\ exited.kind = "nil" =>
          outputPane'.tv = <<>>]_vars

\* A run of the silent expression has returned and emptied a pane that
\* showed the output of an earlier run.
C26_Witness ==
  /\ loopPc = "handle"
  /\ d.filter = 3
  /\ err.kind = "nil"
  /\ outputPane.dirty
  /\ outputPane.tv = <<>>
  /\ outputLineCount > 0

\* A run has returned an error without output and the pane shows the
\* output of an earlier run.
ErrorKeepsContents ==
  /\ loopPc = "handle"
  /\ err.kind # "nil"
  /\ outputPane.dirty
  /\ outputPane.tv # <<>>

\* ------------------------------------------------------------- snapshots
\* C28: calls made from the same document with different filters do not
\* interfere: every call that has started runs with the filter and the
\* options of the copy made when it was created, whatever the current
\* document has become since, and its output is that of its own filter.
C28_OwnSnapshot ==
  \A i \in Started :
    LET c == calls[i] IN
    /\ c.args[Len(c.args)] = c.doc.filter
    /\ c.opts = IF c.w = "pane" THEN PaneOptions(c.doc.options) ELSE c.doc.options
    /\ c.kind = "input" => c.doc.filter = DotFilter
    /\ c.kind = "complete" => c.doc.filter = KeysFilter
    /\ (c.pc = "done" /\ c.doc.options.config.JQCommand = "jq") =>
         /\ Len(c.out) = JqChunks(c.doc.filter)
         /\ c.err.kind = "nil" <=> ~JqFails(c.doc.filter)

\* The output-pane run and a run of autocomplete are under way with their
\* own filters after the user has typed another and the submit has
\* resolved the colours of the current document.
C28_Witness ==
  /\ Len(calls) = 2
  /\ calls[1].kind = "loop" /\ calls[1].pc = "running"
  /\ calls[2].kind = "complete" /\ calls[2].pc = "running"
  /\ calls[1].doc.filter = 1 /\ calls[2].doc.filter = KeysFilter
  /\ document.filter = 2
  /\ document.options # calls[1].doc.options
  /\ calls[1].args[Len(calls[1].args)] = 1

\* ------------------------------------------------------------- autocomplete properties
\* The part of a candidate after its last separator.
KeyPart(c) == SubSeq(c, LastIndex(c, ".") + 1, Len(c))

\* C29: on a cache hit for the text T with its last separator at p, the
\* function returns, starts no goroutine, and returns exactly the cached
\* candidates whose key begins with the text of T after p; every candidate
\* returned is T's prefix, the separator and a key.
C29_CacheHit ==
  suggestion.hit =>
    LET text == suggestion.text
        pos == LastIndex(text, ".")
        prefix == SubSeq(text, 1, pos - 1)
        cur == SubSeq(text, pos + 1, Len(text))
        Begins(c) == HasPrefix(KeyPart(c), cur)
    IN
    /\ ~suggestion.panicked
    /\ ~suggestion.spawned
    /\ suggestion.ret = SelectSeq(suggestion.candidates, Begins)
    /\ \A i \in DOMAIN suggestion.ret :
         suggestion.ret[i] = prefix \o "." \o KeyPart(suggestion.ret[i])

\* C30: no call of the autocomplete function and no goroutine of it ends the
\* process; none changes the error pane, the colour of the field or the
\* pending flag, and the cache gains entries only from keys that were read.
C30_NeverAborts ==
  [][/\ ~aborted'
     /\ errorView' = errorView /\ fieldColor' = fieldColor /\ pending' = pending
     /\ \A e \in filterMap' \ filterMap :
          \E g \in fills :
            /\ g.trimmed = e.key
            /\ ~KeysRun(document.input, FillFilter(g)).err
            /\ e.entries # <<>>]_vars

\* A letter of either case, and a lowercase letter.
IsLetter(c) == \E i \in Alphabet : Ch(Lowers, i) = c \/ Ch(Uppers, i) = c
IsLower(c) == \E i \in Alphabet : Ch(Lowers, i) = c

\* The keys the entries cached for a key were built from.
KeysOf(e) ==
  KeysRun(document.input, FillFilter([prefix |-> e.key, trimmed |-> e.key])).keys

\* Every cached candidate is a prefix that trims to the cache key, the
\* separator and its key, in double quotes if and only if Needs(key).
CandidatesQuote(Needs(_)) ==
  \A e \in filterMap :
    /\ Len(e.entries) = Len(KeysOf(e))
    /\ \A i \in DOMAIN e.entries :
         LET k == KeysOf(e)[i]
             shown == IF Needs(k) THEN "\"" \o k \o "\"" ELSE k
             c == e.entries[i]
         IN /\ HasSuffix(c, "." \o shown)
            /\ StringsTrimSpace(SubSeq(c, 1, Len(c) - Len(shown) - 1)) = e.key

\* C31: a key is wrapped in double quotes if and only if it holds one of
\* . - : $ / or its first character is not an ASCII letter of either case;
\* each candidate is the prefix, the separator and the key so written.
NeedsQuotes(k) == ContainsAny(k, ".-:$/") \/ ~IsLetter(Ch(k, 1))
C31_QuotedKeys == CandidatesQuote(NeedsQuotes)

C31_Witness ==
  /\ document.input = "upper"
  /\ \E e \in filterMap : e.key = "" /\ e.entries = <<".Ab", ".b", ".\"c:d\"">>

\* C31 as stated: quoted if and only if the key holds a special character
\* or its first character is not a lowercase ASCII letter.
NeedsQuotesStated(k) == ContainsAny(k, ".-:$/") \/ ~IsLower(Ch(k, 1))
C31_QuotedUnlessLower == CandidatesQuote(NeedsQuotesStated)

\* C32: when the text of the field is empty the autocomplete function
\* returns the whole history in its order, each candidate being character
\* for character the stored expression.
C32_HistoryVerbatim ==
  (suggestion.called /\ suggestion.text = "") =>
    /\ Len(suggestion.ret) = Len(filterHistory.lines)
    /\ \A i \in DOMAIN suggestion.ret :
         suggestion.ret[i] = ExprText(filterHistory.lines[i])

\* C33: once the cache holds an entry for a prefix the entry is never
\* removed and its list of candidates never changes, however the goroutines
\* that fill the same cache key interleave.
C33_EntriesStable ==
  [][\A e \in filterMap : e \in filterMap']_vars

\* The keys of the cache are never removed.
KeysStay ==
  [][\A e \in filterMap : Cached(filterMap', e.key)]_vars

\* ------------------------------------------------------------- mutex
\* C34: every write of the current document, of the pending flag and of the
\* cancel function, and every use of the cancel function, is a step of a
\* goroutine that holds the mutex.
C34_UnderMutex ==
  [][/\ doc' # doc => UiHoldsMutex \/ LoopHoldsMutex
     /\ pending' # pending => UiHoldsMutex \/ LoopHoldsMutex
     /\ cancel' # cancel => UiHoldsMutex \/ LoopHoldsMutex
     /\ cancelled' # cancelled => UiHoldsMutex]_vars

\* The document and the pending flag are written with the mutex held.
DocumentUnderMutex ==
  [][/\ doc' # doc => UiHoldsMutex
     /\ pending' # pending => UiHoldsMutex \/ LoopHoldsMutex]_vars

\* ------------------------------------------------------------- no lost update
\* The execution the loop performed last ran the current document and was
\* not ended by a cancellation.
LastRunCurrent ==
  /\ nruns > 0
  /\ run.filter = doc.filter
  /\ run.seq = doc.seq
  /\ run.kind # "context"
  /\ ~(run.kind = "exit" /\ run.code = CancelCode)
  /\ run.batch # <<>> => run.filter = LastOf(run.batch)
  /\ \A i \in DOMAIN batch : batch[i] = run.filter

StartedCurrent ==
  /\ nruns > 0
  /\ run.seq = doc.seq
  /\ run.filter = doc.filter
  /\ loopPc \in {"running", "handle", "draw", "wait"}

\* C36: under fair scheduling, and with processes that end once their scope
\* is cancelled, after the last text change the loop eventually starts an
\* execution of the last expression against the output pane.
C36_EventuallyRuns == <>[]StartedCurrent

\* ------------------------------------------------------------- separators
\* The descriptor parsed joins mods and base with '-' and has the outcome of
\* the descriptor that joins them with '+'.
SameAsPlus(mods, base) ==
  parsed.text = Joined(mods, base, "-") =>
    [err |-> parsed.err, binding |-> parsed.binding]
      = UnmarshalText(Joined(mods, base, "+"))

\* C37: for every list of modifiers and every base key the descriptor that
\* joins them with '-' parses to the outcome of the one that joins them
\* with '+': the same binding, or a failure of both.
C37_SeparatorsAgree ==
  (parsed # NoParse /\ matched = NoMatch) =>
    \A mods \in ModLists, base \in BaseKeys : SameAsPlus(mods, base)

\* The same for the base keys other than '-' and for the lists and keys
\* that do not make the name of another key.
RegularSeparatorsAgree ==
  (parsed # NoParse /\ matched = NoMatch) =>
    \A mods \in ModLists, base \in BaseKeys \ {"-"} :
      ToLower(Joined(mods, base, "-")) \notin {"shift-tab"} => SameAsPlus(mods, base)

\* ------------------------------------------------------------- hidden pane
\* C38: after any sequence of key events from a session that starts with
\* the focus on the filter field, the input pane never has the focus while
\* it is hidden.
C38_HiddenNeverFocused == ~(focus = "input" /\ isInputPaneHidden)

\* The same but for the step that handles a previous-focus key while the
\* output pane has the focus.
HiddenFocusedOnlyByPrevious ==
  [][(focus' = "input" /\ isInputPaneHidden' /\ ~(focus = "input" /\ isInputPaneHidden))
       => (focus = "output" /\ isInputPaneHidden
             /\ KeyBindingsMatches(Keymap(keymap).PreviousFocus, last'.ev))]_vars

\* The call of history.Add in this step reached the file and the file system
\* failed to open it or to write the line.
AddFailsToPersist ==
  /\ AddStep
  /\ OpensFile(filterHistory, hop'.e)
  /\ hop'.io \in {"open", "write"}

\* C39: a call of history.Add that fails to persist its expression (opening
\* the history file or writing the line fails) leaves the history of the
\* store as it was, so that the file is not behind the store and a later call
\* with the same expression reaches the file again.
C39_FailedAddLeavesMemory ==
  [][AddFailsToPersist =>
       /\ filterHistory'.lines = filterHistory.lines
       /\ OpensFile(filterHistory', hop'.e)]_vars

\* What the code does instead: the failed call leaves the expression in the
\* store, and no later call with it reaches the file.
FailedAddStaysInMemory ==
  [][AddFailsToPersist =>
       /\ filterHistory'.lines = Append(filterHistory.lines, TrimSpace(hop'.e))
       /\ ~OpensFile(filterHistory', hop'.e)]_vars

====
